---- MODULE Spec2Model ----
(***************************************************************************)
(* Points-and-state reconciliation of the health-engagement application:   *)
(* the sign-in / one-time-passcode flow of AuthPage, the daily metrics     *)
(* gate and the game awards of DiagnosisPage, the daily goals of           *)
(* ProgressPage, and the gateway functions of supabaseService.ts they call.*)
(*                                                                         *)
(* Eight specifications share the variables:                               *)
(*   SpecAuth  the AuthPage handlers, from an anonymous session;           *)
(*   SpecDiag  the daily metrics gate of DiagnosisPage (the tracking view, *)
(*             re-mounts, days), from an authenticated session;            *)
(*   SpecAwards  the point awards of DiagnosisPage (game ends and a        *)
(*             metrics submission, interleaved), from the same session;    *)
(*   SpecMetrics  the metrics form of the tracking view (the fields typed, *)
(*             the parse of handleMetricsSubmit), from the same session;   *)
(*   SpecGames  the Clicker and Memory games of the engagement view and    *)
(*             the game ends they report, from the same session;           *)
(*   SpecGoals  the goal generation of ProgressPage (generate calls,       *)
(*             re-mounts, local days), from an authenticated session with  *)
(*             two persisted goals;                                        *)
(*   SpecSave  the completion toggles and the saves of ProgressPage, from  *)
(*             the same session;                                           *)
(*   SpecSaveRace  the same with re-mounts of ProgressPage, so that two    *)
(*             saves are in flight at once.                                *)
(* An asynchronous handler that the claims study under interleaving is     *)
(* split at its awaits; every other handler is one action.                 *)
(***************************************************************************)
EXTENDS Integers, Sequences, FiniteSets, TLC

VARIABLES
    \* ---- backend (Supabase) ----
    authAccounts,     \* auth users: email -> password, NoPassword when not registered
    backendSession,   \* supabase.auth session: a user id, or NoSession
    usersTbl,         \* ids that have a row in `users`
    healthTbl,        \* ids that have a row in `user_health_profiles`
    pointsTbl,        \* `user_points`: function from the ids that have a row to points
    dailyMetrics,     \* `daily_metrics`: sequence of rows [user_id, created_at]
    gameSessions,     \* `game_sessions`: sequence of rows [user_id, game_type, score]
    \* ---- process-local ----
    otpCache,         \* supabaseService.ts:10, the pairs <<email, code>> it holds
    user,             \* useAuth().user: the session user [id, points], or NoUser
    today,            \* the current UTC day
    \* ---- AuthPage state ----
    aView,            \* 'login' | 'otp' | 'signup' | 'healthDetails'
    email,            \* the email field
    newUser,          \* the provisional identity set by handleSignUp
    error,            \* the error message shown
    \* ---- DiagnosisPage state ----
    dView,            \* 'main' | 'engagement' | 'tracking'
    gameView,         \* 'menu' | 'clicker' | 'memory'
    submittedToday,
    loading,
    mount,            \* which mount of DiagnosisPage is on screen
    statusCheck,      \* checkSubmissionStatus calls in flight
    gameEnd,          \* handleGameEnd calls in flight, by slot
    metricsSubmit,    \* the handleMetricsSubmit call in flight
    metrics,          \* the form of the tracking view: the pairs [key, value] typed so far
    clicker,          \* ClickerGame: [clicks, timeLeft, isActive]
    memory,           \* MemoryGame: [matched, tries, due], due when its game-over effect must run
    plays,            \* history: the games played to their end
    \* ---- backend, the goals ----
    recsTbl,          \* `recommendations`: the set of rows [id, user_id, difficulty]
    statusTbl,        \* `recommendation_status`: rows [user_id, recommendation_id, is_completed]
    nextRecId,        \* the id the backend gives the next recommendations row
    \* ---- ProgressPage state ----
    lastGoalGen,      \* localStorage lastGoalGen_<id>: user id -> an instant, NoInstant when unset
    localNow,         \* the instant of the local clock
    recommendations,  \* the working set: the set of [id, difficulty, isCompleted]
    pLoading,         \* loading
    generating,
    saving,
    pMessage,         \* message
    canGenerate,
    pMount,           \* which mount of ProgressPage is on screen, 0 when it is not
    fetching,         \* fetchRecommendations calls of this mount in flight
    genCall,          \* handleGenerateGoals calls in flight, by slot
    saveCall,         \* handleSaveChanges calls in flight, by slot
    \* ---- history (not program state) ----
    last,             \* the most recent AuthPage handler call and what it returned
    consumed,         \* email -> the code a valid verifyOtp consumed since the last getOtp
    otpPassed,        \* a verifyOtp returned true in this session
    mustRestart,      \* a verifyOtp returned false and no signIn succeeded since
    awards,           \* ledger of what the DiagnosisPage handlers did
    profileCall,      \* the most recent saveInitialDetails call: what it found and returned
    goalLog,          \* ledger of what the ProgressPage handlers did
    lastGen,          \* the most recent handleGenerateGoals call that returned
    lastSave          \* the most recent handleSaveChanges call that returned

backendVars == <<authAccounts, backendSession, usersTbl, healthTbl, pointsTbl,
                 dailyMetrics, gameSessions>>
authPageVars == <<aView, email, newUser, error>>
diagPageVars == <<dView, gameView, submittedToday, loading, mount,
                  statusCheck, gameEnd, metricsSubmit>>
widgetVars == <<metrics, clicker, memory, plays>>
goalVars == <<recsTbl, statusTbl, nextRecId>>
progressPageVars == <<lastGoalGen, localNow, recommendations, pLoading, generating, saving,
                      pMessage, canGenerate, pMount, fetching, genCall, saveCall>>
progressHistoryVars == <<goalLog, lastGen, lastSave>>
progressVars == <<goalVars, progressPageVars, progressHistoryVars>>
historyVars == <<last, consumed, otpPassed, mustRestart, awards, profileCall>>
vars == <<backendVars, otpCache, user, today, authPageVars, diagPageVars, widgetVars,
          historyVars, progressVars>>

(***************************************************************************)
(* Values                                                                  *)
(***************************************************************************)
Undefined == "undefined"
NoPassword == "<none>"
NoSession == "<no session>"
NoUser == [id |-> "<no user>", points |-> 0]
NoNewUser == [id |-> Undefined, email |-> Undefined]

\* The fixed development code: getOtp's fallback and verifyOtp's bypass.
DevOtp == "123456"

Emails == {"a@x", "b@x", "c@x"}
Passwords == {"secret123", "wrongpass", "short"}
Codes == {DevOtp, "111111", "222222"}
WebhookFail == "<webhook failed>"
WebhookReplies == Codes \cup {WebhookFail}

\* The id the backend gives the account of an email.
UserIdOf(e) == IF e = "a@x" THEN "u1" ELSE IF e = "b@x" THEN "u2" ELSE "u3"
UserIds == {UserIdOf(e) : e \in Emails}

(***************************************************************************)
(* otpCache: a JavaScript object used as a map from email to code.         *)
(***************************************************************************)
\* otpCache[email]
CacheGet(cache, e) ==
    IF \E p \in cache : p[1] = e
    THEN (CHOOSE p \in cache : p[1] = e)[2]
    ELSE Undefined

\* otpCache[email] = otp
CacheSet(cache, e, otp) == {p \in cache : p[1] # e} \cup {<<e, otp>>}

\* delete otpCache[email]
CacheDelete(cache, e) == {p \in cache : p[1] # e}

(***************************************************************************)
(* supabaseService.ts: the one-time passcode                               *)
(***************************************************************************)
\* getOtp caches the webhook's reply; when the webhook fails (a status that is not
\* ok, or a network error) the catch caches the development code instead. It
\* returns in both cases: it never throws.
\* A getOtp whose catch returns the development code without caching it.
getOtpFallbackNotCached(cache, e, reply) ==
    IF reply # WebhookFail
    THEN [cache |-> CacheSet(cache, e, reply), otp |-> reply, threw |-> FALSE]
    ELSE [cache |-> cache, otp |-> DevOtp, threw |-> FALSE]

getOtp(cache, e, reply) ==
    IF reply # WebhookFail
    THEN [cache |-> CacheSet(cache, e, reply), otp |-> reply, threw |-> FALSE]
    ELSE [cache |-> CacheSet(cache, e, DevOtp), otp |-> DevOtp, threw |-> FALSE]

\* A verifyOtp that leaves the challenge in the cache.
verifyOtpKeepsChallenge(cache, e, otp) ==
    LET storedOtp == CacheGet(cache, e)
        isValid == (otp = storedOtp \/ otp = DevOtp)
    IN [isValid |-> isValid, cache |-> cache]

\* A verifyOtp that deletes the challenge whatever the outcome.
verifyOtpAlwaysDeletes(cache, e, otp) ==
    LET storedOtp == CacheGet(cache, e)
        isValid == (otp = storedOtp \/ otp = DevOtp)
    IN [isValid |-> isValid, cache |-> CacheDelete(cache, e)]

verifyOtp(cache, e, otp) ==
    LET storedOtp == CacheGet(cache, e)
        isValid == (otp = storedOtp \/ otp = DevOtp)
    IN [isValid |-> isValid,
        cache |-> IF isValid THEN CacheDelete(cache, e) ELSE cache]

(***************************************************************************)
(* supabaseService.ts: apiService.auth and apiService.user                 *)
(***************************************************************************)
\* supabase.auth.signInWithPassword: an error unless the call gets through and the
\* password is the account's.
signInWithPassword(accounts, e, pw, netOk) ==
    LET ok == netOk /\ accounts[e] # NoPassword /\ accounts[e] = pw
    IN [error |-> ~ok, userId |-> IF ok THEN UserIdOf(e) ELSE Undefined]

\* supabase.auth.signUp: an error when the call fails or the email is registered.
signUp(accounts, e, pw, netOk) ==
    LET ok == netOk /\ accounts[e] = NoPassword
    IN [error |-> ~ok,
        userId |-> IF ok THEN UserIdOf(e) ELSE Undefined,
        accounts |-> IF ok THEN [accounts EXCEPT ![e] = pw] ELSE accounts]

\* getPoints: 0 when the read fails or finds no row.
getPoints(points, userId, readOk) ==
    IF ~readOk \/ userId \notin DOMAIN points THEN 0 ELSE points[userId]

\* getFullUserProfile: an error when the users row cannot be read; the points
\* come from getPoints.
\* A getFullUserProfile that does not look at the error of the users query.
getFullUserProfileWithoutRow(users, points, userId, userReadOk, pointsReadOk) ==
    [user |-> [id |-> userId, points |-> getPoints(points, userId, pointsReadOk)],
     error |-> FALSE]

getFullUserProfile(users, points, userId, userReadOk, pointsReadOk) ==
    IF ~userReadOk \/ userId \notin users
    THEN [user |-> NoUser, error |-> TRUE]
    ELSE [user |-> [id |-> userId, points |-> getPoints(points, userId, pointsReadOk)],
          error |-> FALSE]

\* One insert of saveInitialDetails: it fails when the call fails or the key exists.
InsertFails(present, userId, failAt, step) == failAt = step \/ userId \in present

\* saveInitialDetails: users row, then health row, then points row (0); it returns
\* at the first failing insert, leaving the earlier ones in place.
\* A saveInitialDetails that goes on to the later inserts after a failed one.
saveInitialDetailsGoesOn(users, health, points, userId, failAt) ==
    LET uFails == InsertFails(users, userId, failAt, "users")
        hFails == InsertFails(health, userId, failAt, "health")
        pFails == InsertFails(DOMAIN points, userId, failAt, "points")
    IN [users |-> IF uFails THEN users ELSE users \cup {userId},
        health |-> IF hFails THEN health ELSE health \cup {userId},
        points |-> IF pFails THEN points
                   ELSE [u \in DOMAIN points \cup {userId} |->
                           IF u = userId THEN 0 ELSE points[u]],
        user |-> IF uFails \/ hFails \/ pFails THEN NoUser
                 ELSE [id |-> userId, points |-> 0],
        error |-> IF uFails THEN "users" ELSE IF hFails THEN "health"
                  ELSE IF pFails THEN "points" ELSE ""]

saveInitialDetails(users, health, points, userId, failAt) ==
    IF InsertFails(users, userId, failAt, "users")
    THEN [users |-> users, health |-> health, points |-> points,
          user |-> NoUser, error |-> "users"]
    ELSE IF InsertFails(health, userId, failAt, "health")
    THEN [users |-> users \cup {userId}, health |-> health, points |-> points,
          user |-> NoUser, error |-> "health"]
    ELSE IF InsertFails(DOMAIN points, userId, failAt, "points")
    THEN [users |-> users \cup {userId}, health |-> health \cup {userId},
          points |-> points, user |-> NoUser, error |-> "points"]
    ELSE [users |-> users \cup {userId}, health |-> health \cup {userId},
          points |-> [u \in DOMAIN points \cup {userId} |->
                        IF u = userId THEN 0 ELSE points[u]],
          user |-> [id |-> userId, points |-> 0], error |-> ""]

\* updatePoints: upsert of the user's row; nothing is written when it fails.
updatePoints(points, userId, value, writeOk) ==
    IF writeOk
    THEN [u \in DOMAIN points \cup {userId} |-> IF u = userId THEN value ELSE points[u]]
    ELSE points

(***************************************************************************)
(* AuthPage                                                                 *)
(***************************************************************************)
NoCall ==
    [op |-> "none", email |-> "", code |-> "", credsOk |-> FALSE, hookOk |-> FALSE,
     isValid |-> FALSE, replay |-> FALSE, restart |-> FALSE, before |-> {}, after |-> {},
     password |-> "", confirmPassword |-> "", signUpCalled |-> FALSE]

NoProfileCall ==
    [id |-> Undefined, failAt |-> "none", error |-> "", user |-> NoUser,
     users |-> {}, health |-> {}, points |-> [u \in {} |-> 0]]

\* The state AuthPage does not own and its handlers never touch.
AuthFrame ==
    UNCHANGED <<dailyMetrics, gameSessions, today, diagPageVars, widgetVars, awards,
               progressVars>>

\* handleLogin: sign in with the password, then getOtp and the OTP view. The catch
\* around getOtp sets the error and keeps the view.
handleLogin(e, pw, netOk, reply) ==
    /\ aView = "login" /\ user = NoUser
    /\ email' = e
    /\ LET r == signInWithPassword(authAccounts, e, pw, netOk)
           g == getOtp(otpCache, e, reply)
       IN IF r.error
          THEN /\ error' = "Invalid credentials."
               /\ last' = [NoCall EXCEPT !.op = "handleLogin", !.email = e,
                             !.credsOk = FALSE, !.hookOk = TRUE,
                             !.before = otpCache, !.after = otpCache]
               /\ UNCHANGED <<aView, backendSession, otpCache, consumed, mustRestart>>
          ELSE /\ backendSession' = r.userId
               /\ otpCache' = g.cache
               /\ IF g.threw
                  THEN error' = "Failed to send OTP. Please try again." /\ aView' = aView
                  ELSE error' = "" /\ aView' = "otp"
               /\ consumed' = [consumed EXCEPT ![e] = Undefined]
               /\ mustRestart' = FALSE
               /\ last' = [NoCall EXCEPT !.op = "handleLogin", !.email = e,
                             !.code = g.otp, !.credsOk = TRUE,
                             !.hookOk = (reply # WebhookFail),
                             !.before = otpCache, !.after = g.cache]
    /\ UNCHANGED <<authAccounts, usersTbl, healthTbl, pointsTbl, user, newUser, otpPassed,
                   profileCall>>
    /\ AuthFrame

\* handleOtpVerification, the code was rejected: the error, and signOut.
otpRejectedKeepsSession ==
    /\ error' = "Invalid OTP."
    /\ UNCHANGED <<backendSession, aView, user>>

otpRejected ==
    /\ error' = "Invalid OTP."
    /\ backendSession' = NoSession
    /\ UNCHANGED <<aView, user>>

\* handleOtpVerification: verifyOtp; a rejected code signs out; an accepted one
\* needs the backend session, loads the profile and logs the user in, or signs
\* out when the profile cannot be loaded.
handleOtpVerification(otp, userReadOk, pointsReadOk) ==
    /\ aView = "otp" /\ user = NoUser
    /\ LET v == verifyOtp(otpCache, email, otp)
           storedOtp == CacheGet(otpCache, email)
           prof == getFullUserProfile(usersTbl, pointsTbl, backendSession,
                                      userReadOk, pointsReadOk)
       IN /\ otpCache' = v.cache
          /\ last' = [NoCall EXCEPT !.op = "verifyOtp", !.email = email, !.code = otp,
                        !.isValid = v.isValid, !.replay = (consumed[email] = otp),
                        !.restart = mustRestart,
                        !.before = otpCache, !.after = v.cache]
          /\ consumed' = IF v.isValid /\ storedOtp # Undefined
                         THEN [consumed EXCEPT ![email] = storedOtp]
                         ELSE consumed
          /\ otpPassed' = (otpPassed \/ v.isValid)
          /\ mustRestart' = (mustRestart \/ ~v.isValid)
          /\ IF ~v.isValid
             THEN otpRejected
             ELSE IF backendSession = NoSession
             THEN /\ error' = "Session expired. Please log in again."
                  /\ aView' = "login"
                  /\ UNCHANGED <<backendSession, user>>
             ELSE IF ~prof.error
             THEN /\ user' = prof.user
                  /\ error' = ""
                  /\ UNCHANGED <<backendSession, aView>>
             ELSE /\ error' = "Could not retrieve user profile."
                  /\ backendSession' = NoSession
                  /\ UNCHANGED <<aView, user>>
    /\ UNCHANGED <<authAccounts, usersTbl, healthTbl, pointsTbl, email, newUser,
                   profileCall>>
    /\ AuthFrame

\* A handleSignUp without the check of the length of the password.
handleSignUpAnyLength(e, pw, confirmPassword, netOk, opensSession) ==
    /\ aView = "signup" /\ user = NoUser
    /\ email' = e
    /\ last' = [NoCall EXCEPT !.op = "handleSignUp", !.email = e, !.password = pw,
                              !.confirmPassword = confirmPassword,
                              !.signUpCalled = (pw = confirmPassword)]
    /\ IF pw # confirmPassword
       THEN /\ error' = "Passwords do not match."
            /\ UNCHANGED <<authAccounts, backendSession, newUser, aView>>
       ELSE LET r == signUp(authAccounts, e, pw, netOk)
            IN IF r.error
               THEN /\ error' = "Could not sign up user."
                    /\ UNCHANGED <<authAccounts, backendSession, newUser, aView>>
               ELSE /\ error' = ""
                    /\ authAccounts' = r.accounts
                    /\ backendSession' = IF opensSession THEN r.userId ELSE backendSession
                    /\ newUser' = [id |-> r.userId, email |-> e]
                    /\ aView' = "healthDetails"
    /\ UNCHANGED <<usersTbl, healthTbl, pointsTbl, otpCache, user,
                   consumed, otpPassed, mustRestart, profileCall>>
    /\ AuthFrame

\* handleSignUp: the password checks come before the backend call; on success the
\* provisional identity is kept and the view moves to the profile form. The
\* record of the call says whether apiService.auth.signUp was called.
handleSignUp(e, pw, confirmPassword, netOk, opensSession) ==
    /\ aView = "signup" /\ user = NoUser
    /\ email' = e
    /\ last' = [NoCall EXCEPT !.op = "handleSignUp", !.email = e, !.password = pw,
                              !.confirmPassword = confirmPassword,
                              !.signUpCalled = (Len(pw) >= 8 /\ pw = confirmPassword)]
    /\ IF Len(pw) < 8
       THEN /\ error' = "Password must be at least 8 characters long."
            /\ UNCHANGED <<authAccounts, backendSession, newUser, aView>>
       ELSE IF pw # confirmPassword
       THEN /\ error' = "Passwords do not match."
            /\ UNCHANGED <<authAccounts, backendSession, newUser, aView>>
       ELSE LET r == signUp(authAccounts, e, pw, netOk)
            IN IF r.error
               THEN /\ error' = "Could not sign up user."
                    /\ UNCHANGED <<authAccounts, backendSession, newUser, aView>>
               ELSE /\ error' = ""
                    /\ authAccounts' = r.accounts
                    /\ backendSession' = IF opensSession THEN r.userId ELSE backendSession
                    /\ newUser' = [id |-> r.userId, email |-> e]
                    /\ aView' = "healthDetails"
    /\ UNCHANGED <<usersTbl, healthTbl, pointsTbl, otpCache, user,
                   consumed, otpPassed, mustRestart, profileCall>>
    /\ AuthFrame

\* handleHealthDetailsSubmit: saveInitialDetails, then auth.login with the user
\* it returned.
handleHealthDetailsSubmit(failAt) ==
    /\ aView = "healthDetails" /\ user = NoUser
    /\ last' = [NoCall EXCEPT !.op = "handleHealthDetailsSubmit", !.email = email]
    /\ IF newUser.id = Undefined \/ newUser.email = Undefined
       THEN /\ error' = "Session error. Please start over."
            /\ aView' = "signup"
            /\ UNCHANGED <<usersTbl, healthTbl, pointsTbl, user, profileCall>>
       ELSE LET s == saveInitialDetails(usersTbl, healthTbl, pointsTbl, newUser.id, failAt)
            IN /\ profileCall' = [id |-> newUser.id, failAt |-> failAt, error |-> s.error,
                                  user |-> s.user, users |-> usersTbl,
                                  health |-> healthTbl, points |-> pointsTbl]
               /\ usersTbl' = s.users
               /\ healthTbl' = s.health
               /\ pointsTbl' = s.points
               /\ IF s.error # "" \/ s.user = NoUser
                  THEN error' = "Could not save health details." /\ user' = user
                  ELSE error' = "" /\ user' = s.user
               /\ aView' = aView
    /\ UNCHANGED <<authAccounts, backendSession, otpCache, email, newUser,
                   consumed, otpPassed, mustRestart>>
    /\ AuthFrame

\* The footer buttons: setView('signup'), setView('login').
showSignup ==
    /\ aView = "login" /\ user = NoUser
    /\ aView' = "signup"
    /\ last' = [NoCall EXCEPT !.op = "setView"]
    /\ UNCHANGED <<backendVars, otpCache, user, email, newUser, error,
                   consumed, otpPassed, mustRestart, profileCall>>
    /\ UNCHANGED <<today, diagPageVars, widgetVars, awards, progressVars>>

showLogin ==
    /\ aView \in {"otp", "signup"} /\ user = NoUser
    /\ aView' = "login"
    /\ last' = [NoCall EXCEPT !.op = "setView"]
    /\ UNCHANGED <<backendVars, otpCache, user, email, newUser, error,
                   consumed, otpPassed, mustRestart, profileCall>>
    /\ UNCHANGED <<today, diagPageVars, widgetVars, awards, progressVars>>

(***************************************************************************)
(* supabaseService.ts: apiService.metrics and apiService.games             *)
(***************************************************************************)
Null == "null"

\* The rows of `daily_metrics` the query of hasSubmittedToday matches:
\* user_id = userId and created_at >= today 00:00 UTC.
RowsOfToday(rows, userId, day) ==
    {i \in DOMAIN rows : rows[i].user_id = userId /\ rows[i].created_at >= day}

\* select('id', { count: 'exact', head: true }): a HEAD request. Its reply carries
\* the count and no rows: data is null whatever the table holds.
HeadSelect(rows, userId, day, readOk) ==
    [data |-> Null,
     count |-> IF readOk THEN Cardinality(RowsOfToday(rows, userId, day)) ELSE 0,
     error |-> ~readOk]

\* data?.length || 0
RowsLength(data) == IF data = Null THEN 0 ELSE Len(data)

\* (supabase.rpc as any).count: rpc is a method of the client and has no count.
RpcCount == Undefined

\* x > n in JavaScript, where undefined > n is false.
JsGreater(x, n) == IF x = Undefined THEN FALSE ELSE x > n

\* hasSubmittedToday: (data?.length || 0) > 0 || (error ? false : rpc.count > 0)
hasSubmittedToday(rows, userId, day, readOk) ==
    LET r == HeadSelect(rows, userId, day, readOk)
    IN RowsLength(r.data) > 0 \/ (IF r.error THEN FALSE ELSE JsGreater(RpcCount, 0))

\* toSnakeCase on the key of a field: every capital letter becomes '_' and its
\* small letter.
toSnakeCaseKey(key) ==
    CASE key = "heartRate" -> "heart_rate"
      [] key = "steps" -> "steps"
      [] key = "sleepHours" -> "sleep_hours"
      [] key = "breathingRate" -> "breathing_rate"
      [] key = "distanceTravelled" -> "distance_travelled"
      [] key = "caloriesBurnt" -> "calories_burnt"

\* A metrics.save whose insert stores the row although it returns an error.
metricsSaveStoresThenFails(rows, userId, metricsToSave, day, writeOk) ==
    Append(rows, [user_id |-> userId, created_at |-> day,
                  fields |-> {[key |-> toSnakeCaseKey(f.key), value |-> f.value]
                                : f \in metricsToSave}])

\* metrics.save: one more row { user_id, ...toSnakeCase(metrics) }, created now;
\* nothing is written when it fails.
metricsSave(rows, userId, metricsToSave, day, writeOk) ==
    IF writeOk
    THEN Append(rows, [user_id |-> userId, created_at |-> day,
                       fields |-> {[key |-> toSnakeCaseKey(f.key), value |-> f.value]
                                     : f \in metricsToSave}])
    ELSE rows

\* games.saveSession: one more row; nothing is written when it fails.
saveSession(sessions, userId, gameType, score, writeOk) ==
    IF writeOk
    THEN Append(sessions, [user_id |-> userId, game_type |-> gameType, score |-> score])
    ELSE sessions

(***************************************************************************)
(* DiagnosisPage                                                            *)
(***************************************************************************)
\* Bounds of the model.
MaxDay == 2            \* the days run from 1 to MaxDay
MaxMounts == 1         \* re-mounts of DiagnosisPage
MaxSubmits == 2        \* handleMetricsSubmit calls in all, SpecDiag
MaxGameCalls == 2      \* handleGameEnd calls in flight at once
MaxGames == 2          \* handleGameEnd calls in all
MaxAwardSubmits == 1   \* handleMetricsSubmit calls in all, SpecAwards
MaxFormSubmits == 2    \* handleMetricsSubmit calls in all, SpecMetrics
MaxClicks == 1         \* clicks in a Clicker game
MaxMisses == 1         \* tries of a Memory game that find no pair
MaxPlays == 2          \* games played to their end, SpecGames
MaxGameEnds == 2       \* handleGameEnd calls in all, SpecGames

\* The points of a user in the ledger, 0 when there is no row.
LedgerOf(points, userId) == IF userId \in DOMAIN points THEN points[userId] ELSE 0

\* The awards of handleGameEnd and handleMetricsSubmit.
GameAward == 10
MetricsAward == 25

GameTypes == {"Clicker", "Memory"}
Scores == {7}
Days == 1..MaxDay
GameCalls == 1..MaxGameCalls

\* The fields of the form that the model fills in, and what is typed into them: a
\* value is the sequence of its characters. A number input holds the empty text
\* or a number; the blank and the letter are the texts that the checks of
\* handleMetricsSubmit guard against.
MetricKeys == {"heartRate", "steps"}
RawValues == {<<>>, <<"7", "2">>, <<"0">>, <<" ">>, <<"a">>}
DigitChars == <<"0", "1", "2", "3", "4", "5", "6", "7", "8", "9">>
NaN == [isNaN |-> TRUE, value |-> 0]

IsDigit(c) == \E d \in DOMAIN DigitChars : DigitChars[d] = c
DigitValue(c) == (CHOOSE d \in DOMAIN DigitChars : DigitChars[d] = c) - 1

\* value.trim()
RECURSIVE trim(_)
trim(text) ==
    IF text = <<>> THEN <<>>
    ELSE IF Head(text) = " " THEN trim(Tail(text))
    ELSE IF text[Len(text)] = " " THEN trim(SubSeq(text, 1, Len(text) - 1))
    ELSE text

\* The number of the digits a text starts with, read after the digits in acc.
RECURSIVE ReadDigits(_, _)
ReadDigits(text, acc) ==
    IF text = <<>> \/ ~IsDigit(Head(text))
    THEN acc
    ELSE ReadDigits(Tail(text), 10 * acc + DigitValue(Head(text)))

\* parseFloat(value): white space is skipped, the number the text starts with is
\* read, NaN when it starts with none.
RECURSIVE parseFloat(_)
parseFloat(text) ==
    IF text = <<>> THEN NaN
    ELSE IF Head(text) = " " THEN parseFloat(Tail(text))
    ELSE IF ~IsDigit(Head(text)) THEN NaN
    ELSE [isNaN |-> FALSE, value |-> ReadDigits(text, 0)]

\* A reduce that stores 0 for a field that is empty or does not parse.
metricsToSaveZeroes(form) ==
    {[key |-> e.key,
      value |-> IF trim(e.value) # <<>> /\ ~parseFloat(e.value).isNaN
                THEN parseFloat(e.value).value ELSE 0] : e \in form}

\* The reduce of handleMetricsSubmit over Object.entries(metrics): a field is kept
\* with its number when its text is not blank and parseFloat gives a number.
metricsToSave(form) ==
    {[key |-> e.key, value |-> parseFloat(e.value).value]
       : e \in {f \in form : trim(f.value) # <<>> /\ ~parseFloat(f.value).isNaN}}

IdleGameEnd ==
    [pc |-> "idle", m |-> 0, id |-> "", points |-> 0, newPoints |-> 0,
     gameType |-> "", score |-> 0, sessionOk |-> FALSE]
IdleMetricsSubmit ==
    [pc |-> "idle", m |-> 0, id |-> "", points |-> 0, newPoints |-> 0, metricsToSave |-> {},
     form |-> {}]
IdleStatusCheck == [pc |-> "idle", m |-> 0, id |-> "", status |-> FALSE, error |-> FALSE]
NoAwards ==
    [games |-> 0, submits |-> 0, metricsAwards |-> [d \in Days |-> 0], done |-> <<>>]

\* The game components as they are mounted.
ClickerSeconds == 10
Pairs == 18
NewClicker == [clicks |-> 0, timeLeft |-> ClickerSeconds, isActive |-> FALSE]
NewMemory == [matched |-> 0, tries |-> 0, due |-> FALSE]

\* updateUser({ points }): the session user with its points replaced.
updateUser(u, points) == [u EXCEPT !.points = points]

\* A state setter of a call acts on the mount that made the call; on a mount that
\* is gone it does nothing.
OnScreen(call) == call.m = mount

\* DiagnosisPage renders again (a state of its own or the session user changed):
\* onGameEnd is a new arrow function, so the game-over effect of a MemoryGame on
\* screen, of which onGameEnd is a dependency, runs again.
MemoryAfterRender(m) ==
    IF dView = "engagement" /\ gameView = "memory" /\ m.matched = Pairs
    THEN [m EXCEPT !.due = TRUE]
    ELSE m

\* The session user changed: checkSubmissionStatus is a new callback ([user]), so
\* the effect that depends on it runs again and, in the tracking view, calls it.
\* One call is followed at a time: a call in flight is superseded.
StatusCheckAfterUserChange(check, u) ==
    IF dView = "tracking"
    THEN [pc |-> "sent", m |-> mount, id |-> u.id, status |-> FALSE, error |-> FALSE]
    ELSE check

\* A handleGameEnd that adds the award to the points the session holds now.
newPointsFromSession(call, sessionUser) == sessionUser.points + GameAward

\* const newPoints = user.points + 10, user being the user of the closure.
newPointsOfGame(call, sessionUser) == call.points + GameAward

\* alert() blocks the page until it is dismissed: no handler or continuation runs
\* while one is showing.
NoAlert == \A h \in GameCalls : gameEnd[h].pc # "alert"

\* The effects of a render run before the page takes the next event.
NoEffectDue == ~memory.due

\* The state DiagnosisPage does not own and its handlers never touch.
DiagOutside ==
    UNCHANGED <<authAccounts, backendSession, usersTbl, healthTbl, otpCache,
                authPageVars, last, consumed, otpPassed, mustRestart, profileCall,
                progressVars>>

\* The same, for a step that leaves the form and the games as they are.
DiagFrame == DiagOutside /\ UNCHANGED widgetVars

\* The view buttons. Showing the tracking view runs the effect that calls
\* checkSubmissionStatus, which sends hasSubmittedToday.
showMain ==
    /\ NoAlert /\ NoEffectDue
    /\ user # NoUser /\ dView \in {"engagement", "tracking"}
    /\ dView' = "main"
    /\ clicker' = NewClicker /\ memory' = NewMemory
    /\ UNCHANGED <<gameView, submittedToday, loading, mount, statusCheck,
                   gameEnd, metricsSubmit, metrics, plays>>
    /\ UNCHANGED <<pointsTbl, dailyMetrics, gameSessions, user, today, awards>>
    /\ DiagOutside

showEngagement(gv) ==
    /\ NoAlert /\ NoEffectDue
    /\ user # NoUser
    /\ \/ dView = "main" /\ gv = gameView
       \/ dView = "engagement" /\ gv # gameView /\ "menu" \in {gv, gameView}
    /\ dView' = "engagement"
    /\ gameView' = gv
    /\ clicker' = NewClicker /\ memory' = NewMemory
    /\ UNCHANGED <<submittedToday, loading, mount, statusCheck,
                   gameEnd, metricsSubmit, metrics, plays>>
    /\ UNCHANGED <<pointsTbl, dailyMetrics, gameSessions, user, today, awards>>
    /\ DiagOutside

showTracking ==
    /\ NoAlert
    /\ user # NoUser /\ dView = "main"
    /\ statusCheck.pc = "idle"
    /\ dView' = "tracking"
    /\ statusCheck' = [IdleStatusCheck EXCEPT !.pc = "sent", !.m = mount, !.id = user.id]
    /\ UNCHANGED <<gameView, submittedToday, loading, mount,
                   gameEnd, metricsSubmit>>
    /\ UNCHANGED <<pointsTbl, dailyMetrics, gameSessions, user, today, awards>>
    /\ DiagFrame

\* The backend answers hasSubmittedToday.
hasSubmittedTodayReply(readOk) ==
    /\ statusCheck.pc = "sent"
    /\ statusCheck' = [statusCheck EXCEPT
                         !.pc = "read",
                         !.status = hasSubmittedToday(dailyMetrics, statusCheck.id,
                                                      today, readOk),
                         !.error = ~readOk]
    /\ UNCHANGED <<dView, gameView, submittedToday, loading, mount,
                   gameEnd, metricsSubmit>>
    /\ UNCHANGED <<pointsTbl, dailyMetrics, gameSessions, user, today, awards>>
    /\ DiagFrame

\* checkSubmissionStatus after its await: setSubmittedToday(status).
checkSubmissionStatus ==
    /\ NoAlert
    /\ statusCheck.pc = "read"
    /\ submittedToday' = IF OnScreen(statusCheck) THEN statusCheck.status
                         ELSE submittedToday
    /\ statusCheck' = IdleStatusCheck
    /\ memory' = IF submittedToday' # submittedToday THEN MemoryAfterRender(memory)
                 ELSE memory
    /\ UNCHANGED <<dView, gameView, loading, mount, gameEnd, metricsSubmit>>
    /\ UNCHANGED <<metrics, clicker, plays>>
    /\ UNCHANGED <<pointsTbl, dailyMetrics, gameSessions, user, today, awards>>
    /\ DiagOutside

\* handleGameEnd up to its first await: the closure holds the user of the render
\* that made it, and saveSession is sent.
handleGameEnd(h, gameType, score) ==
    /\ NoAlert
    /\ user # NoUser
    /\ dView = "engagement"
    /\ gameView = (IF gameType = "Clicker" THEN "clicker" ELSE "memory")
    /\ gameEnd[h].pc = "idle"
    /\ \A k \in GameCalls : k < h => gameEnd[k].pc # "idle"
    /\ gameEnd' = [gameEnd EXCEPT ![h] =
                     [pc |-> "saveSession", m |-> mount, id |-> user.id,
                      points |-> user.points, newPoints |-> 0,
                      gameType |-> gameType, score |-> score, sessionOk |-> FALSE]]
    /\ awards' = [awards EXCEPT !.games = @ + 1]
    /\ UNCHANGED <<dView, gameView, submittedToday, loading, mount,
                   statusCheck, metricsSubmit, metrics>>
    /\ UNCHANGED <<pointsTbl, dailyMetrics, gameSessions, user, today>>
    /\ DiagOutside

\* handleGameEnd after saveSession (its result is not looked at):
\* newPoints = user.points + 10, updateUser, and updatePoints is sent.
handleGameEndAfterSave(h, writeOk) ==
    /\ NoAlert
    /\ gameEnd[h].pc = "saveSession"
    /\ gameSessions' = saveSession(gameSessions, gameEnd[h].id, gameEnd[h].gameType,
                                   gameEnd[h].score, writeOk)
    /\ LET newPoints == newPointsOfGame(gameEnd[h], user)
       IN /\ user' = updateUser(user, newPoints)
          /\ gameEnd' = [gameEnd EXCEPT ![h].pc = "updatePoints",
                                        ![h].newPoints = newPoints,
                                        ![h].sessionOk = writeOk]
          /\ statusCheck' = StatusCheckAfterUserChange(statusCheck, user')
    /\ memory' = MemoryAfterRender(memory)
    /\ UNCHANGED <<dView, gameView, submittedToday, loading, mount, metricsSubmit>>
    /\ UNCHANGED <<metrics, clicker, plays>>
    /\ UNCHANGED <<pointsTbl, dailyMetrics, today, awards>>
    /\ DiagOutside

\* handleGameEnd after updatePoints (its result is not looked at): the alert
\* "You earned 10 points!".
handleGameEndAfterUpdate(h, writeOk) ==
    /\ NoAlert
    /\ gameEnd[h].pc = "updatePoints"
    /\ pointsTbl' = updatePoints(pointsTbl, gameEnd[h].id, gameEnd[h].newPoints, writeOk)
    /\ gameEnd' = [gameEnd EXCEPT ![h].pc = "alert"]
    /\ awards' = [awards EXCEPT !.done =
                     Append(@, [from |-> gameEnd[h].points,
                                ok |-> gameEnd[h].sessionOk /\ writeOk,
                                ledger |-> LedgerOf(pointsTbl', gameEnd[h].id)])]
    /\ UNCHANGED <<dView, gameView, submittedToday, loading, mount,
                   statusCheck, metricsSubmit>>
    /\ UNCHANGED <<dailyMetrics, gameSessions, user, today>>
    /\ DiagFrame

\* The alert is dismissed and handleGameEnd returns.
dismissAlert(h) ==
    /\ gameEnd[h].pc = "alert"
    /\ gameEnd' = [gameEnd EXCEPT ![h] = IdleGameEnd]
    /\ UNCHANGED <<dView, gameView, submittedToday, loading, mount,
                   statusCheck, metricsSubmit>>
    /\ UNCHANGED <<pointsTbl, dailyMetrics, gameSessions, user, today, awards>>
    /\ DiagFrame

\* handleMetricsSubmit up to its first await: the form is on screen only while
\* submittedToday is false, its button is disabled while loading; metrics.save
\* is sent.
handleMetricsSubmit ==
    /\ NoAlert
    /\ user # NoUser
    /\ dView = "tracking" /\ ~submittedToday /\ ~loading
    /\ metricsSubmit.pc = "idle"
    /\ loading' = TRUE
    /\ metricsSubmit' = [pc |-> "save", m |-> mount, id |-> user.id,
                         points |-> user.points, newPoints |-> 0,
                         metricsToSave |-> metricsToSave(metrics), form |-> metrics]
    /\ awards' = [awards EXCEPT !.submits = @ + 1]
    /\ UNCHANGED <<dView, gameView, submittedToday, mount, statusCheck, gameEnd>>
    /\ UNCHANGED <<pointsTbl, dailyMetrics, gameSessions, user, today>>
    /\ DiagFrame

\* handleMetricsSubmit after metrics.save: on an error the message and the end;
\* otherwise newPoints = user.points + 25, updateUser, and updatePoints is sent.
handleMetricsSubmitAfterSave(writeOk) ==
    /\ NoAlert
    /\ metricsSubmit.pc = "save"
    /\ dailyMetrics' = metricsSave(dailyMetrics, metricsSubmit.id,
                                   metricsSubmit.metricsToSave, today, writeOk)
    /\ IF ~writeOk
       THEN /\ loading' = IF OnScreen(metricsSubmit) THEN FALSE ELSE loading
            /\ metricsSubmit' = IdleMetricsSubmit
            /\ memory' = IF OnScreen(metricsSubmit) THEN MemoryAfterRender(memory)
                         ELSE memory
            /\ UNCHANGED <<user, awards, statusCheck>>
       ELSE LET newPoints == metricsSubmit.points + MetricsAward
            IN /\ user' = updateUser(user, newPoints)
               /\ metricsSubmit' = [metricsSubmit EXCEPT !.pc = "updatePoints",
                                                         !.newPoints = newPoints]
               /\ awards' = [awards EXCEPT !.metricsAwards[today] = @ + 1]
               /\ statusCheck' = StatusCheckAfterUserChange(statusCheck, user')
               /\ memory' = MemoryAfterRender(memory)
               /\ UNCHANGED loading
    /\ UNCHANGED <<dView, gameView, submittedToday, mount, gameEnd>>
    /\ UNCHANGED <<metrics, clicker, plays>>
    /\ UNCHANGED <<pointsTbl, gameSessions, today>>
    /\ DiagOutside

\* handleMetricsSubmit after updatePoints (its result is not looked at): the
\* success message, setSubmittedToday(true), setLoading(false).
handleMetricsSubmitAfterUpdate(writeOk) ==
    /\ NoAlert
    /\ metricsSubmit.pc = "updatePoints"
    /\ pointsTbl' = updatePoints(pointsTbl, metricsSubmit.id, metricsSubmit.newPoints,
                                 writeOk)
    /\ submittedToday' = IF OnScreen(metricsSubmit) THEN TRUE ELSE submittedToday
    /\ loading' = IF OnScreen(metricsSubmit) THEN FALSE ELSE loading
    /\ metricsSubmit' = IdleMetricsSubmit
    /\ memory' = IF OnScreen(metricsSubmit) THEN MemoryAfterRender(memory) ELSE memory
    /\ UNCHANGED <<dView, gameView, mount, statusCheck, gameEnd>>
    /\ UNCHANGED <<metrics, clicker, plays>>
    /\ UNCHANGED <<dailyMetrics, gameSessions, user, today, awards>>
    /\ DiagOutside

\* DiagnosisPage is mounted again: its state starts over; the calls in flight go on.
remount ==
    /\ NoAlert /\ NoEffectDue
    /\ user # NoUser
    /\ mount' = mount + 1
    /\ dView' = "main"
    /\ gameView' = "menu"
    /\ submittedToday' = FALSE
    /\ loading' = FALSE
    /\ metrics' = {}
    /\ clicker' = NewClicker /\ memory' = NewMemory
    /\ UNCHANGED <<statusCheck, gameEnd, metricsSubmit, plays>>
    /\ UNCHANGED <<pointsTbl, dailyMetrics, gameSessions, user, today, awards>>
    /\ DiagOutside

\* onChange of a field of the form: setMetrics(prev => ({ ...prev, [name]: value })).
setMetrics(key, value) ==
    /\ NoAlert
    /\ user # NoUser
    /\ dView = "tracking" /\ ~submittedToday
    /\ metrics' = {f \in metrics : f.key # key} \cup {[key |-> key, value |-> value]}
    /\ metrics' # metrics
    /\ UNCHANGED <<clicker, memory, plays>>
    /\ UNCHANGED diagPageVars
    /\ UNCHANGED <<pointsTbl, dailyMetrics, gameSessions, user, today, awards>>
    /\ DiagOutside

\* What the steps of a game component leave alone.
GameFrame ==
    /\ UNCHANGED <<dView, gameView, submittedToday, loading, mount, statusCheck,
                   gameEnd, metricsSubmit, metrics>>
    /\ UNCHANGED <<pointsTbl, dailyMetrics, gameSessions, user, today, awards>>
    /\ DiagOutside

ClickerOnScreen == user # NoUser /\ dView = "engagement" /\ gameView = "clicker"
MemoryOnScreen == user # NoUser /\ dView = "engagement" /\ gameView = "memory"

\* ClickerGame, startGame: the button shown while the game is not active.
startGame ==
    /\ NoAlert
    /\ ClickerOnScreen /\ ~clicker.isActive
    /\ clicker' = [clicks |-> 0, timeLeft |-> ClickerSeconds, isActive |-> TRUE]
    /\ UNCHANGED <<memory, plays>>
    /\ GameFrame

\* ClickerGame, the button "Click Me!": setClicks(c => c + 1).
clickerClick ==
    /\ NoAlert
    /\ ClickerOnScreen /\ clicker.isActive /\ clicker.timeLeft > 0
    /\ clicker' = [clicker EXCEPT !.clicks = @ + 1]
    /\ UNCHANGED <<memory, plays>>
    /\ GameFrame

\* ClickerGame, the timer of the effect: setTimeLeft(prevTime => prevTime - 1).
clickerTick ==
    /\ NoAlert
    /\ ClickerOnScreen /\ clicker.isActive /\ clicker.timeLeft > 0
    /\ clicker' = [clicker EXCEPT !.timeLeft = @ - 1]
    /\ UNCHANGED <<memory, plays>>
    /\ GameFrame

\* ClickerGame, the effect at timeLeft 0: setIsActive(false), onGameEnd(clicks).
\* With isActive false no later run of the effect takes this branch.
clickerTimeUp(h) ==
    /\ ClickerOnScreen /\ clicker.isActive /\ clicker.timeLeft = 0
    /\ clicker' = [clicker EXCEPT !.isActive = FALSE]
    /\ plays' = plays + 1
    /\ handleGameEnd(h, "Clicker", clicker.clicks)
    /\ UNCHANGED memory

\* MemoryGame, two cards are turned: setTries(t => t + 1) and, when they match,
\* one more matched pair. The render that follows runs the game-over effect,
\* which calls onGameEnd once every pair is matched.
memoryTry(match) ==
    /\ NoAlert
    /\ MemoryOnScreen /\ memory.matched < Pairs
    /\ LET matched == IF match THEN memory.matched + 1 ELSE memory.matched
       IN /\ memory' = [matched |-> matched, tries |-> memory.tries + 1,
                        due |-> (matched = Pairs)]
          /\ plays' = IF matched = Pairs THEN plays + 1 ELSE plays
    /\ UNCHANGED clicker
    /\ GameFrame

\* MemoryGame, the game-over effect: matchedPairs.length === EMOJIS.length, so
\* onGameEnd(tries).
memoryGameOver(h) ==
    /\ MemoryOnScreen /\ memory.due /\ memory.matched = Pairs
    /\ memory' = [memory EXCEPT !.due = FALSE]
    /\ handleGameEnd(h, "Memory", memory.tries)
    /\ UNCHANGED <<clicker, plays>>

\* MemoryGame, resetGame: the button shown once a try was made.
resetGame ==
    /\ NoAlert /\ NoEffectDue
    /\ MemoryOnScreen /\ (memory.matched = Pairs \/ memory.tries > 0)
    /\ memory' = NewMemory
    /\ UNCHANGED <<clicker, plays>>
    /\ GameFrame

\* Midnight UTC.
nextDay ==
    /\ today' = today + 1
    /\ UNCHANGED <<backendVars, otpCache, user, authPageVars, diagPageVars, widgetVars,
                   historyVars,
                   progressVars>>

(***************************************************************************)
(* geminiService: fetchHealthGoalsFromN8n                                   *)
(***************************************************************************)
validCategories == {"Diet", "Exercise", "Mental Health", "General"}
validDifficulties == {"Easy", "Medium", "Hard"}

\* The reply of the goal webhook: a failure (a status that is not ok, or a network
\* error), or a text. A text is the sequence of its lines, a line the sequence of
\* the parts that split(';') gives; the empty line splits into one empty part.
EmptyLine == <<"">>
LineWalk == <<"walk", "Exercise", "Easy">>
LineRun == <<"run", "Exercise", "Hard">>
LineTwoParts == <<"nap", "Easy">>
LineBadCategory == <<"eat", "Food", "Easy">>
LineBadDifficulty == <<"rest", "General", "Tough">>
LineFourParts == <<"read", "General", "Easy", "daily">>
GoalTexts == {<<EmptyLine>>, <<LineTwoParts>>, <<LineBadCategory>>, <<LineWalk, LineRun>>,
              <<LineBadCategory, LineRun>>, <<LineFourParts, LineWalk, LineBadDifficulty>>}
GoalReplies == {[ok |-> FALSE, lines |-> <<>>]} \cup {[ok |-> TRUE, lines |-> t] : t \in GoalTexts}

\* A check of a line that does not look at its category.
GoalLineIsValidAnyCategory(line) == Len(line) = 3 /\ line[3] \in validDifficulties

\* A line is kept when it has three parts, a valid category and a valid difficulty.
GoalLineIsValid(line) ==
    Len(line) = 3 /\ line[2] \in validCategories /\ line[3] \in validDifficulties

\* A fetchHealthGoalsFromN8n that checks the number of parts only.
fetchHealthGoalsUnchecked(reply) ==
    IF ~reply.ok
    THEN <<>>
    ELSE LET kept == SelectSeq(reply.lines, LAMBDA line : Len(line) = 3)
         IN [i \in 1..Len(kept) |->
               [goal |-> kept[i][1], category |-> kept[i][2], difficulty |-> kept[i][3]]]

\* fetchHealthGoalsFromN8n: the goals of the valid lines, in order; the empty list
\* when the webhook fails or when the text has lines and none is valid (the throw
\* and its catch).
fetchHealthGoalsFromN8n(reply) ==
    IF ~reply.ok
    THEN <<>>
    ELSE LET lines == SelectSeq(reply.lines, LAMBDA line : line # EmptyLine)
             kept == SelectSeq(lines, GoalLineIsValid)
             goals == [i \in 1..Len(kept) |->
                         [goal |-> kept[i][1], category |-> kept[i][2],
                          difficulty |-> kept[i][3]]]
         IN IF Len(goals) = 0 /\ Len(lines) > 0 THEN <<>> ELSE goals

(***************************************************************************)
(* supabaseService.ts: apiService.recommendations                           *)
(***************************************************************************)
\* A recommendations.get that takes a goal as completed once it has a status row.
recommendationsGetCountsAnyRow(recs, statuses, userId, recsReadOk, statusReadOk) ==
    IF ~recsReadOk
    THEN {}
    ELSE {[id |-> r.id, difficulty |-> r.difficulty,
           isCompleted |-> statusReadOk /\ \E st \in statuses :
                              st.user_id = userId /\ st.recommendation_id = r.id]
            : r \in {row \in recs : row.user_id = userId}}

\* recommendations.get: the rows of the user, each with isCompleted taken from
\* the status rows (statusMap.get(r.id) || false); the empty list when the rows
\* cannot be read, every isCompleted false when the statuses cannot be read.
recommendationsGet(recs, statuses, userId, recsReadOk, statusReadOk) ==
    IF ~recsReadOk
    THEN {}
    ELSE LET statusMap == IF statusReadOk
                          THEN {st \in statuses : st.user_id = userId}
                          ELSE {}
         IN {[id |-> r.id, difficulty |-> r.difficulty,
              isCompleted |-> \E st \in statusMap :
                                 st.recommendation_id = r.id /\ st.is_completed]
               : r \in {row \in recs : row.user_id = userId}}

\* recommendations.create, its first request: delete the rows of the user.
recommendationsDelete(recs, userId, deleteOk) ==
    IF deleteOk THEN {row \in recs : row.user_id # userId} ELSE recs

\* An insert whose rows are numbered from 1 in every batch.
recommendationsInsertReusesIds(recs, nextId, userId, newGoals, insertOk) ==
    IF insertOk
    THEN LET rows == {[id |-> i, user_id |-> userId,
                       difficulty |-> newGoals[i].difficulty] : i \in 1..Len(newGoals)}
         IN [recs |-> recs \cup rows, nextId |-> nextId,
             recommendations |-> {[id |-> row.id, difficulty |-> row.difficulty,
                                   isCompleted |-> FALSE] : row \in rows},
             error |-> FALSE]
    ELSE [recs |-> recs, nextId |-> nextId, recommendations |-> {}, error |-> TRUE]

\* recommendations.create, its second request: insert the new goals in one batch;
\* the backend numbers the rows. It returns the rows with isCompleted false, or
\* no rows and the error.
recommendationsInsert(recs, nextId, userId, newGoals, insertOk) ==
    IF insertOk
    THEN LET rows == {[id |-> nextId + i - 1, user_id |-> userId,
                       difficulty |-> newGoals[i].difficulty] : i \in 1..Len(newGoals)}
         IN [recs |-> recs \cup rows, nextId |-> nextId + Len(newGoals),
             recommendations |-> {[id |-> row.id, difficulty |-> row.difficulty,
                                   isCompleted |-> FALSE] : row \in rows},
             error |-> FALSE]
    ELSE [recs |-> recs, nextId |-> nextId, recommendations |-> {}, error |-> TRUE]

\* An updateStatus whose upsert writes the completed goals before it fails.
updateStatusWritesBeforeFailing(statuses, userId, updatedRecs, writeOk) ==
    LET written == IF writeOk THEN updatedRecs
                   ELSE {rec \in updatedRecs : rec.isCompleted}
    IN {st \in statuses :
           ~(st.user_id = userId /\ \E rec \in written : rec.id = st.recommendation_id)}
       \cup {[user_id |-> userId, recommendation_id |-> rec.id,
              is_completed |-> rec.isCompleted] : rec \in written}

\* recommendations.updateStatus: one batched upsert keyed by (user_id,
\* recommendation_id); nothing is written when it fails.
updateStatus(statuses, userId, updatedRecs, writeOk) ==
    IF ~writeOk
    THEN statuses
    ELSE {st \in statuses :
             ~(st.user_id = userId /\
               \E rec \in updatedRecs : rec.id = st.recommendation_id)}
         \cup {[user_id |-> userId, recommendation_id |-> rec.id,
                is_completed |-> rec.isCompleted] : rec \in updatedRecs}

(***************************************************************************)
(* ProgressPage                                                             *)
(***************************************************************************)
\* Bounds of the model.
MaxLocalNow == 3       \* the local days run from 1 to MaxLocalNow
MaxPMounts == 2        \* mounts of ProgressPage
MaxGenCalls == 2       \* handleGenerateGoals calls in flight at once
MaxGenerates == 2      \* handleGenerateGoals calls in all
MaxSaveCalls == 2      \* handleSaveChanges calls in flight at once
MaxSaves == 2          \* handleSaveChanges calls in all

NoInstant == 0
LocalNows == 1..MaxLocalNow
GenCalls == 1..MaxGenCalls
SaveCalls == 1..MaxSaveCalls

\* The local calendar date of an instant, as getFullYear, getMonth, getDate read
\* it: the days of the model start on the last day of a month.
LocalDate(t) ==
    IF t = 1
    THEN [year |-> 2024, month |-> 0, date |-> 31]
    ELSE [year |-> 2024, month |-> 1, date |-> t - 1]

isSameDay(d1, d2) == d1.year = d2.year /\ d1.month = d2.month /\ d1.date = d2.date

difficultyPoints(difficulty) ==
    CASE difficulty = "Easy" -> 2
      [] difficulty = "Medium" -> 5
      [] difficulty = "Hard" -> 8

\* The loop of handleSaveChanges over the working set: the points of the goals
\* that are completed in it and found not completed in originalRecs.
RECURSIVE pointsEarnedOver(_, _)
pointsEarnedOver(recs, originalRecs) ==
    IF recs = {}
    THEN 0
    ELSE LET rec == CHOOSE r \in recs : TRUE
             found == \E originalRec \in originalRecs :
                         originalRec.id = rec.id /\ ~originalRec.isCompleted
         IN (IF found /\ rec.isCompleted THEN difficultyPoints(rec.difficulty) ELSE 0)
            + pointsEarnedOver(recs \ {rec}, originalRecs)

\* The effect of ProgressPage on canGenerate: false when localStorage holds a
\* generation of the user on the local day, left as it is otherwise.
canGenerateAfterEffect(cg, stored, now) ==
    IF stored # NoInstant /\ isSameDay(LocalDate(stored), LocalDate(now))
    THEN FALSE
    ELSE cg

IdleGenCall ==
    [pc |-> "idle", m |-> 0, id |-> "", newGoals |-> <<>>,
     reply |-> [ok |-> FALSE, lines |-> <<>>], prior |-> {}]
\* Two handleSaveChanges calls of a user with the same working set that have both
\* re-read the same persisted set before either has sent its statuses: the ledger
\* and the goals not yet completed in the persisted set at that moment.
NoRace == [on |-> FALSE, base |-> 0, flipped |-> {}]
IdleSaveCall ==
    [pc |-> "idle", m |-> 0, id |-> "", points |-> 0, recs |-> {}, pointsEarned |-> 0,
     newTotalPoints |-> 0, persisted |-> {}, statusBefore |-> {}, originalRecs |-> {},
     getOk |-> FALSE, race |-> NoRace]
NoGen ==
    [outcome |-> "none", id |-> "", reply |-> [ok |-> FALSE, lines |-> <<>>],
     prior |-> {}, returned |-> {}, onScreen |-> FALSE, at |-> NoInstant,
     recsBefore |-> {}, recsAfter |-> {}, statusBefore |-> {}, statusAfter |-> {},
     storedBefore |-> NoInstant, storedAfter |-> NoInstant,
     workingBefore |-> {}, workingAfter |-> {}, canBefore |-> FALSE, canAfter |-> FALSE,
     hooksBefore |-> 0, hooksAfter |-> 0, message |-> ""]
NoSave ==
    [outcome |-> "none", id |-> "", working |-> {}, persisted |-> {}, pointsEarned |-> 0,
     wrote |-> FALSE, ledgerBefore |-> 0, ledgerAfter |-> 0,
     sessionBefore |-> 0, sessionAfter |-> 0, statusBefore |-> {}, statusAfter |-> {},
     message |-> "", race |-> NoRace,
     prior |-> [outcome |-> "none", working |-> {}, race |-> NoRace]]
NoGet == [id |-> "", ok |-> FALSE, recs |-> {}, statuses |-> {}, result |-> {}]
NoGoalLog ==
    [generates |-> 0, saves |-> 0, webhook |-> 0, fetched |-> [t \in LocalNows |-> 0],
     lastGet |-> NoGet, awarded |-> {}]

\* What a recommendations.get call found in the tables and what it returned; ok
\* when both its queries were answered.
GetReturned(log, userId, recsReadOk, statusReadOk) ==
    [log EXCEPT !.lastGet =
        [id |-> userId, ok |-> recsReadOk /\ statusReadOk,
         recs |-> recsTbl, statuses |-> statusTbl,
         result |-> recommendationsGet(recsTbl, statusTbl, userId,
                                       recsReadOk, statusReadOk)]]

\* The points awarded so far for a goal, and the record of one more award for
\* each goal of a set.
AwardedFor(awarded, id) ==
    IF \E a \in awarded : a.id = id
    THEN (CHOOSE a \in awarded : a.id = id).points
    ELSE 0
AwardedWith(awarded, recs) ==
    {a \in awarded : \A rec \in recs : rec.id # a.id}
    \cup {[id |-> rec.id,
           points |-> AwardedFor(awarded, rec.id) + difficultyPoints(rec.difficulty)]
            : rec \in recs}

\* The state ProgressPage does not own and its handlers never touch.
ProgressFrame ==
    UNCHANGED <<authAccounts, backendSession, usersTbl, healthTbl, dailyMetrics,
                gameSessions, otpCache, today, authPageVars, diagPageVars, widgetVars,
                historyVars>>

\* What a handleGenerateGoals call found and left when it returned.
GenReturned(call, outcome, returned) ==
    lastGen' =
        [outcome |-> outcome, id |-> call.id, reply |-> call.reply, prior |-> call.prior,
         returned |-> returned, onScreen |-> (call.m = pMount), at |-> localNow,
         recsBefore |-> recsTbl, recsAfter |-> recsTbl',
         statusBefore |-> statusTbl, statusAfter |-> statusTbl',
         storedBefore |-> lastGoalGen[call.id], storedAfter |-> lastGoalGen'[call.id],
         workingBefore |-> recommendations, workingAfter |-> recommendations',
         canBefore |-> canGenerate, canAfter |-> canGenerate',
         hooksBefore |-> goalLog.webhook, hooksAfter |-> goalLog'.webhook,
         message |-> pMessage']

\* What a handleSaveChanges call found and left when it returned.
SaveReturned(call, outcome, wrote) ==
    lastSave' =
        [outcome |-> outcome, id |-> call.id, working |-> call.recs,
         persisted |-> call.persisted, pointsEarned |-> call.pointsEarned,
         wrote |-> wrote,
         ledgerBefore |-> LedgerOf(pointsTbl, call.id),
         ledgerAfter |-> LedgerOf(pointsTbl', call.id),
         sessionBefore |-> user.points, sessionAfter |-> user'.points,
         statusBefore |-> call.statusBefore, statusAfter |-> statusTbl',
         message |-> pMessage', race |-> call.race,
         prior |-> [outcome |-> lastSave.outcome, working |-> lastSave.working,
                    race |-> lastSave.race]]

\* fetchRecommendations is answered: setRecommendations(data), setLoading(false).
fetchRecommendations(recsReadOk, statusReadOk) ==
    /\ user # NoUser /\ fetching > 0
    /\ recommendations' = recommendationsGet(recsTbl, statusTbl, user.id,
                                             recsReadOk, statusReadOk)
    /\ pLoading' = FALSE
    /\ fetching' = fetching - 1
    /\ goalLog' = GetReturned(goalLog, user.id, recsReadOk, statusReadOk)
    /\ UNCHANGED <<lastGoalGen, localNow, generating, saving, pMessage, canGenerate,
                   pMount, genCall, saveCall>>
    /\ UNCHANGED <<goalVars, lastGen, lastSave, pointsTbl, user>>
    /\ ProgressFrame

\* handleGenerateGoals up to its first await: the message and the return when
\* canGenerate is false; otherwise setGenerating(true) and the goal webhook is
\* called. The button is disabled while generating.
handleGenerateGoals(g) ==
    /\ user # NoUser /\ ~generating
    /\ genCall[g].pc = "idle"
    /\ \A k \in GenCalls : k < g => genCall[k].pc # "idle"
    /\ UNCHANGED <<lastGoalGen, localNow, recommendations, pLoading, saving, canGenerate,
                   pMount, fetching, saveCall>>
    /\ UNCHANGED <<goalVars, lastSave, pointsTbl, user>>
    /\ ProgressFrame
    /\ goalLog' = [goalLog EXCEPT !.generates = @ + 1]
    /\ IF ~canGenerate
       THEN /\ pMessage' = "You can only generate new goals once per day."
            /\ GenReturned([IdleGenCall EXCEPT !.m = pMount, !.id = user.id,
                                               !.prior = recsTbl],
                           "refused", {})
            /\ UNCHANGED <<generating, genCall>>
       ELSE /\ generating' = TRUE
            /\ pMessage' = ""
            /\ genCall' = [genCall EXCEPT ![g] =
                             [IdleGenCall EXCEPT !.pc = "fetch", !.m = pMount,
                                                 !.id = user.id]]
            /\ UNCHANGED lastGen

\* handleGenerateGoals after fetchHealthGoalsFromN8n: with no goals the message
\* and the return; otherwise recommendations.create is called, whose first
\* request is the delete.
handleGenerateGoalsAfterFetch(g, reply) ==
    /\ genCall[g].pc = "fetch"
    /\ UNCHANGED <<lastGoalGen, localNow, recommendations, pLoading, saving, canGenerate,
                   pMount, fetching, saveCall>>
    /\ UNCHANGED <<goalVars, lastSave, pointsTbl, user>>
    /\ ProgressFrame
    /\ LET call == genCall[g]
           newGoals == fetchHealthGoalsFromN8n(reply)
           onScreen == call.m = pMount
       IN /\ goalLog' = [goalLog EXCEPT
                           !.webhook = @ + 1,
                           !.fetched[localNow] = @ + (IF Len(newGoals) > 0 THEN 1 ELSE 0)]
          /\ IF Len(newGoals) = 0
             THEN /\ pMessage' = IF onScreen
                                 THEN "Could not generate new goals from the service."
                                 ELSE pMessage
                  /\ generating' = IF onScreen THEN FALSE ELSE generating
                  /\ genCall' = [genCall EXCEPT ![g] = IdleGenCall]
                  /\ GenReturned([call EXCEPT !.reply = reply, !.prior = recsTbl],
                                 "noGoals", {})
             ELSE /\ genCall' = [genCall EXCEPT ![g].pc = "delete", ![g].reply = reply,
                                                ![g].newGoals = newGoals,
                                                ![g].prior = recsTbl]
                  /\ UNCHANGED <<pMessage, generating, lastGen>>

\* recommendations.create after its delete: on an error create returns it and
\* handleGenerateGoals shows the message; otherwise the insert is sent.
handleGenerateGoalsAfterDelete(g, deleteOk) ==
    /\ genCall[g].pc = "delete"
    /\ UNCHANGED <<lastGoalGen, localNow, recommendations, pLoading, saving, canGenerate,
                   pMount, fetching, saveCall>>
    /\ UNCHANGED <<statusTbl, nextRecId, goalLog, lastSave, pointsTbl, user>>
    /\ ProgressFrame
    /\ LET call == genCall[g]
           onScreen == call.m = pMount
       IN /\ recsTbl' = recommendationsDelete(recsTbl, call.id, deleteOk)
          /\ IF ~deleteOk
             THEN /\ pMessage' = IF onScreen THEN "Error saving new goals." ELSE pMessage
                  /\ generating' = IF onScreen THEN FALSE ELSE generating
                  /\ genCall' = [genCall EXCEPT ![g] = IdleGenCall]
                  /\ GenReturned(call, "deleteError", {})
             ELSE /\ genCall' = [genCall EXCEPT ![g].pc = "insert"]
                  /\ UNCHANGED <<pMessage, generating, lastGen>>

\* recommendations.create after its insert, and the rest of handleGenerateGoals:
\* on an error the message; otherwise setRecommendations(savedRecs), the
\* timestamp in localStorage, setCanGenerate(false) and the message.
handleGenerateGoalsAfterInsert(g, insertOk) ==
    /\ genCall[g].pc = "insert"
    /\ UNCHANGED <<localNow, pLoading, saving, pMount, fetching, saveCall>>
    /\ UNCHANGED <<statusTbl, goalLog, lastSave, pointsTbl, user>>
    /\ ProgressFrame
    /\ LET call == genCall[g]
           onScreen == call.m = pMount
           r == recommendationsInsert(recsTbl, nextRecId, call.id, call.newGoals, insertOk)
       IN /\ recsTbl' = r.recs
          /\ nextRecId' = r.nextId
          /\ IF r.error
             THEN /\ pMessage' = IF onScreen THEN "Error saving new goals." ELSE pMessage
                  /\ UNCHANGED <<recommendations, lastGoalGen, canGenerate>>
                  /\ GenReturned(call, "insertError", r.recommendations)
             ELSE /\ recommendations' = IF onScreen THEN r.recommendations
                                        ELSE recommendations
                  /\ lastGoalGen' = [lastGoalGen EXCEPT ![call.id] = localNow]
                  /\ canGenerate' = IF onScreen THEN FALSE ELSE canGenerate
                  /\ pMessage' = IF onScreen THEN "New goals have been generated!"
                                 ELSE pMessage
                  /\ GenReturned(call, "generated", r.recommendations)
          /\ generating' = IF onScreen THEN FALSE ELSE generating
          /\ genCall' = [genCall EXCEPT ![g] = IdleGenCall]

\* handleToggleCompletion: the flag of one goal of the working set is flipped.
handleToggleCompletion(id) ==
    /\ user # NoUser /\ ~pLoading
    /\ \E rec \in recommendations : rec.id = id
    /\ recommendations' = {IF rec.id = id THEN [rec EXCEPT !.isCompleted = ~rec.isCompleted]
                           ELSE rec : rec \in recommendations}
    /\ UNCHANGED <<lastGoalGen, localNow, pLoading, generating, saving, pMessage,
                   canGenerate, pMount, fetching, genCall, saveCall>>
    /\ UNCHANGED <<goalVars, progressHistoryVars, pointsTbl, user>>
    /\ ProgressFrame

\* A handleSaveChanges that adds the points earned to the points the session
\* holds now.
newTotalPointsFromSession(call, sessionUser) == sessionUser.points + call.pointsEarned

\* const newTotalPoints = user.points + pointsEarned, user being the user of the
\* closure.
newTotalPointsOf(call, sessionUser) == call.points + call.pointsEarned

\* handleSaveChanges up to its first await: the closure holds the user and the
\* working set of the render that made it; recommendations.get is called. The
\* button is on screen with the list and disabled while saving.
handleSaveChanges(h) ==
    /\ user # NoUser /\ ~pLoading /\ recommendations # {} /\ ~saving
    /\ saveCall[h].pc = "idle"
    /\ \A k \in SaveCalls : k < h => saveCall[k].pc # "idle"
    /\ saving' = TRUE
    /\ pMessage' = ""
    /\ saveCall' = [saveCall EXCEPT ![h] =
                      [IdleSaveCall EXCEPT !.pc = "get", !.m = pMount, !.id = user.id,
                                           !.points = user.points,
                                           !.recs = recommendations]]
    /\ goalLog' = [goalLog EXCEPT !.saves = @ + 1]
    /\ UNCHANGED <<lastGoalGen, localNow, recommendations, pLoading, generating,
                   canGenerate, pMount, fetching, genCall>>
    /\ UNCHANGED <<goalVars, lastGen, lastSave, pointsTbl, user>>
    /\ ProgressFrame

\* handleSaveChanges after recommendations.get: the loop that adds up
\* pointsEarned; updateStatus is called with the working set.
handleSaveChangesAfterGet(h, recsReadOk, statusReadOk) ==
    /\ saveCall[h].pc = "get"
    /\ LET call == saveCall[h]
           originalRecs == recommendationsGet(recsTbl, statusTbl, call.id,
                                              recsReadOk, statusReadOk)
           persisted == recommendationsGet(recsTbl, statusTbl, call.id, TRUE, TRUE)
           getOk == recsReadOk /\ statusReadOk
           partners == {k \in SaveCalls \ {h} :
                          /\ getOk /\ saveCall[k].getOk
                          /\ saveCall[k].pc = "updateStatus"
                          /\ saveCall[k].id = call.id /\ saveCall[k].recs = call.recs
                          /\ saveCall[k].persisted = persisted}
           race == [on |-> TRUE, base |-> LedgerOf(pointsTbl, call.id),
                    flipped |-> {rec \in call.recs :
                                   /\ rec.isCompleted
                                   /\ \E o \in persisted : o.id = rec.id /\ ~o.isCompleted}]
       IN saveCall' =
            [k \in SaveCalls |->
               IF k = h
               THEN [call EXCEPT
                       !.pc = "updateStatus",
                       !.pointsEarned = pointsEarnedOver(call.recs, originalRecs),
                       !.originalRecs = originalRecs,
                       !.persisted = persisted,
                       !.getOk = getOk,
                       !.race = IF partners # {} THEN race ELSE NoRace]
               ELSE IF k \in partners
               THEN [saveCall[k] EXCEPT !.race = race]
               ELSE saveCall[k]]
    /\ goalLog' = GetReturned(goalLog, saveCall[h].id, recsReadOk, statusReadOk)
    /\ UNCHANGED <<lastGoalGen, localNow, recommendations, pLoading, generating, saving,
                   pMessage, canGenerate, pMount, fetching, genCall>>
    /\ UNCHANGED <<goalVars, lastGen, lastSave, pointsTbl, user>>
    /\ ProgressFrame

\* handleSaveChanges after updateStatus: on an error the message; with points
\* earned newTotalPoints = user.points + pointsEarned and updatePoints is called;
\* otherwise the neutral message.
handleSaveChangesAfterUpdateStatus(h, writeOk) ==
    /\ saveCall[h].pc = "updateStatus"
    /\ UNCHANGED <<lastGoalGen, localNow, recommendations, pLoading, generating,
                   canGenerate, pMount, fetching, genCall>>
    /\ UNCHANGED <<recsTbl, nextRecId, goalLog, lastGen, pointsTbl, user>>
    /\ ProgressFrame
    /\ LET call == [saveCall[h] EXCEPT !.statusBefore = statusTbl]
           onScreen == call.m = pMount
       IN /\ statusTbl' = updateStatus(statusTbl, call.id, call.recs, writeOk)
          /\ IF ~writeOk
             THEN /\ pMessage' = IF onScreen THEN "Error saving changes." ELSE pMessage
                  /\ saving' = IF onScreen THEN FALSE ELSE saving
                  /\ saveCall' = [saveCall EXCEPT ![h] = IdleSaveCall]
                  /\ SaveReturned(call, "statusError", FALSE)
             ELSE IF call.pointsEarned > 0
             THEN /\ saveCall' = [saveCall EXCEPT ![h] =
                                    [call EXCEPT !.pc = "updatePoints",
                                                 !.newTotalPoints =
                                                     newTotalPointsOf(call, user)]]
                  /\ UNCHANGED <<pMessage, saving, lastSave>>
             ELSE /\ pMessage' = IF onScreen THEN "Your progress has been saved."
                                 ELSE pMessage
                  /\ saving' = IF onScreen THEN FALSE ELSE saving
                  /\ saveCall' = [saveCall EXCEPT ![h] = IdleSaveCall]
                  /\ SaveReturned(call, "saved", FALSE)

\* handleSaveChanges after updatePoints (its result is not looked at):
\* updateUser and the message. The new session user makes the effect of
\* ProgressPage run again: fetchRecommendations and the check of lastGoalGen.
handleSaveChangesAfterUpdatePoints(h, writeOk) ==
    /\ saveCall[h].pc = "updatePoints"
    /\ UNCHANGED <<lastGoalGen, localNow, recommendations, generating, pMount, genCall>>
    /\ UNCHANGED <<goalVars, lastGen>>
    /\ ProgressFrame
    /\ LET call == saveCall[h]
           onScreen == call.m = pMount
           awardedRecs == {rec \in call.recs :
                             /\ rec.isCompleted
                             /\ \E originalRec \in call.originalRecs :
                                   originalRec.id = rec.id /\ ~originalRec.isCompleted}
       IN /\ goalLog' = [goalLog EXCEPT !.awarded = AwardedWith(@, awardedRecs)]
          /\ pointsTbl' = updatePoints(pointsTbl, call.id, call.newTotalPoints, writeOk)
          /\ user' = updateUser(user, call.newTotalPoints)
          /\ pMessage' = IF onScreen THEN "Changes saved! You've earned points!"
                         ELSE pMessage
          /\ saving' = IF onScreen THEN FALSE ELSE saving
          /\ fetching' = fetching + 1
          /\ pLoading' = TRUE
          /\ canGenerate' = canGenerateAfterEffect(canGenerate, lastGoalGen[user.id],
                                                   localNow)
          /\ saveCall' = [saveCall EXCEPT ![h] = IdleSaveCall]
          /\ SaveReturned(call, "earned", TRUE)

\* ProgressPage is mounted again: its state starts over and its effect runs
\* (fetchRecommendations, the check of lastGoalGen); the calls in flight go on.
remountProgress ==
    /\ user # NoUser
    /\ pMount' = pMount + 1
    /\ recommendations' = {}
    /\ pLoading' = TRUE
    /\ generating' = FALSE
    /\ saving' = FALSE
    /\ pMessage' = ""
    /\ canGenerate' = canGenerateAfterEffect(TRUE, lastGoalGen[user.id], localNow)
    /\ fetching' = 1
    /\ UNCHANGED <<lastGoalGen, localNow, genCall, saveCall>>
    /\ UNCHANGED <<goalVars, progressHistoryVars, pointsTbl, user>>
    /\ ProgressFrame

\* Local midnight.
nextLocalDay ==
    /\ localNow' = localNow + 1
    /\ UNCHANGED <<lastGoalGen, recommendations, pLoading, generating, saving, pMessage,
                   canGenerate, pMount, fetching, genCall, saveCall>>
    /\ UNCHANGED <<goalVars, progressHistoryVars, pointsTbl, user>>
    /\ ProgressFrame

(***************************************************************************)
(* The specifications                                                       *)
(***************************************************************************)
\* a@x is registered and has its profile; b@x signed up and never completed its
\* profile; c@x is not registered.
InitBackend ==
    /\ authAccounts = [e \in Emails |-> IF e = "c@x" THEN NoPassword ELSE "secret123"]
    /\ backendSession = NoSession
    /\ usersTbl = {"u1"}
    /\ healthTbl = {"u1"}
    /\ dailyMetrics = <<>>
    /\ gameSessions = <<>>

InitPages ==
    /\ otpCache = {}
    /\ today = 1
    /\ aView = "login" /\ email = "" /\ newUser = NoNewUser /\ error = ""
    /\ dView = "main" /\ gameView = "menu"
    /\ submittedToday = FALSE /\ loading = FALSE
    /\ mount = 0
    /\ statusCheck = IdleStatusCheck
    /\ gameEnd = [h \in GameCalls |-> IdleGameEnd]
    /\ metricsSubmit = IdleMetricsSubmit
    /\ metrics = {}
    /\ clicker = NewClicker /\ memory = NewMemory /\ plays = 0
    /\ last = NoCall
    /\ consumed = [e \in Emails |-> Undefined]
    /\ otpPassed = FALSE
    /\ mustRestart = FALSE
    /\ awards = NoAwards
    /\ profileCall = NoProfileCall

\* ProgressPage is not on screen and the user has no goals.
InitProgressOff ==
    /\ recsTbl = {} /\ statusTbl = {} /\ nextRecId = 1
    /\ lastGoalGen = [u \in UserIds |-> NoInstant]
    /\ localNow = 1
    /\ recommendations = {}
    /\ pLoading = TRUE /\ generating = FALSE /\ saving = FALSE
    /\ pMessage = "" /\ canGenerate = TRUE
    /\ pMount = 0 /\ fetching = 0
    /\ genCall = [g \in GenCalls |-> IdleGenCall]
    /\ saveCall = [h \in SaveCalls |-> IdleSaveCall]
    /\ goalLog = NoGoalLog /\ lastGen = NoGen /\ lastSave = NoSave

\* AuthPage on screen, nobody logged in.
InitAuth ==
    /\ InitBackend
    /\ InitPages
    /\ InitProgressOff
    /\ pointsTbl \in {[u \in {"u1"} |-> p] : p \in {0, 35}}
    /\ user = NoUser

NextAuth ==
    \/ \E e \in Emails, pw \in Passwords, netOk \in BOOLEAN, reply \in WebhookReplies :
          handleLogin(e, pw, netOk, reply)
    \/ \E otp \in Codes, userReadOk \in BOOLEAN, pointsReadOk \in BOOLEAN :
          handleOtpVerification(otp, userReadOk, pointsReadOk)
    \/ \E e \in Emails, pw \in Passwords, cpw \in Passwords, netOk \in BOOLEAN,
          opensSession \in BOOLEAN :
          handleSignUp(e, pw, cpw, netOk, opensSession)
    \/ \E failAt \in {"none", "users", "health", "points"} :
          handleHealthDetailsSubmit(failAt)
    \/ showSignup
    \/ showLogin

SpecAuth == InitAuth /\ [][NextAuth]_vars

\* DiagnosisPage on screen: a@x has logged in and the session holds its points.
InitDiag ==
    /\ InitBackend
    /\ InitPages
    /\ InitProgressOff
    /\ pointsTbl = [u \in {"u1"} |-> 0]
    /\ user = [id |-> "u1", points |-> 0]

\* The metrics gate: the tracking view, its status check, submissions, re-mounts
\* and days.
NextDiag ==
    \/ showMain
    \/ showTracking
    \/ \E readOk \in BOOLEAN : hasSubmittedTodayReply(readOk)
    \/ checkSubmissionStatus
    \/ awards.submits < MaxSubmits /\ handleMetricsSubmit
    \/ \E writeOk \in BOOLEAN : handleMetricsSubmitAfterSave(writeOk)
    \/ \E writeOk \in BOOLEAN : handleMetricsSubmitAfterUpdate(writeOk)
    \/ mount < MaxMounts /\ remount
    \/ today < MaxDay /\ nextDay

SpecDiag == InitDiag /\ [][NextDiag]_vars

\* The awards: game ends and a metrics submission, whose awaits interleave.
NextAwards ==
    \/ showMain
    \/ \E gv \in {"menu", "clicker", "memory"} : showEngagement(gv)
    \/ showTracking
    \/ \E readOk \in BOOLEAN : hasSubmittedTodayReply(readOk)
    \/ checkSubmissionStatus
    \/ \E h \in GameCalls, gameType \in GameTypes, score \in Scores :
          /\ awards.games < MaxGames
          /\ handleGameEnd(h, gameType, score)
          /\ UNCHANGED <<clicker, memory, plays>>
    \/ \E h \in GameCalls, writeOk \in BOOLEAN : handleGameEndAfterSave(h, writeOk)
    \/ \E h \in GameCalls, writeOk \in BOOLEAN : handleGameEndAfterUpdate(h, writeOk)
    \/ \E h \in GameCalls : dismissAlert(h)
    \/ awards.submits < MaxAwardSubmits /\ handleMetricsSubmit
    \/ \E writeOk \in BOOLEAN : handleMetricsSubmitAfterSave(writeOk)
    \/ \E writeOk \in BOOLEAN : handleMetricsSubmitAfterUpdate(writeOk)

SpecAwards == InitDiag /\ [][NextAwards]_vars

\* The form of the tracking view: what is typed, what a submission stores.
NextMetrics ==
    \/ showMain
    \/ showTracking
    \/ \E readOk \in BOOLEAN : hasSubmittedTodayReply(readOk)
    \/ checkSubmissionStatus
    \/ \E key \in MetricKeys, value \in RawValues : setMetrics(key, value)
    \/ awards.submits < MaxFormSubmits /\ handleMetricsSubmit
    \/ \E writeOk \in BOOLEAN : handleMetricsSubmitAfterSave(writeOk)
    \/ \E writeOk \in BOOLEAN : handleMetricsSubmitAfterUpdate(writeOk)

SpecMetrics == InitDiag /\ [][NextMetrics]_vars

\* The games: the components that call handleGameEnd, and its steps.
NextGames ==
    \/ \E gv \in {"menu", "clicker", "memory"} : showEngagement(gv)
    \/ startGame
    \/ clicker.clicks < MaxClicks /\ clickerClick
    \/ clickerTick
    \/ \E h \in GameCalls :
          plays < MaxPlays /\ awards.games < MaxGameEnds /\ clickerTimeUp(h)
    \/ \E match \in BOOLEAN :
          /\ match \/ memory.tries - memory.matched < MaxMisses
          /\ ~match \/ memory.matched + 1 < Pairs \/ plays < MaxPlays
          /\ memoryTry(match)
    \/ \E h \in GameCalls : awards.games < MaxGameEnds /\ memoryGameOver(h)
    \/ resetGame
    \/ \E h \in GameCalls, writeOk \in BOOLEAN : handleGameEndAfterSave(h, writeOk)
    \/ \E h \in GameCalls, writeOk \in BOOLEAN : handleGameEndAfterUpdate(h, writeOk)
    \/ \E h \in GameCalls : dismissAlert(h)

SpecGames == InitDiag /\ [][NextGames]_vars

\* ProgressPage has just been mounted, on the day after a@x generated two goals,
\* completed the easy one and saved: the ledger and the session hold its 2 points,
\* and the first fetchRecommendations is in flight.
InitProgress ==
    /\ InitBackend
    /\ InitPages
    /\ pointsTbl = [u \in {"u1"} |-> difficultyPoints("Easy")]
    /\ user = [id |-> "u1", points |-> difficultyPoints("Easy")]
    /\ recsTbl = {[id |-> 1, user_id |-> "u1", difficulty |-> "Easy"],
                  [id |-> 2, user_id |-> "u1", difficulty |-> "Hard"]}
    /\ statusTbl = {[user_id |-> "u1", recommendation_id |-> 1, is_completed |-> TRUE],
                    [user_id |-> "u1", recommendation_id |-> 2, is_completed |-> FALSE]}
    /\ nextRecId = 3
    /\ lastGoalGen = [u \in UserIds |-> IF u = "u1" THEN 1 ELSE NoInstant]
    /\ localNow = 2
    /\ recommendations = {}
    /\ pLoading = TRUE /\ generating = FALSE /\ saving = FALSE
    /\ pMessage = "" /\ canGenerate = TRUE
    /\ pMount = 1 /\ fetching = 1
    /\ genCall = [g \in GenCalls |-> IdleGenCall]
    /\ saveCall = [h \in SaveCalls |-> IdleSaveCall]
    /\ goalLog = [NoGoalLog EXCEPT
                     !.awarded = {[id |-> 1, points |-> difficultyPoints("Easy")]}]
    /\ lastGen = NoGen /\ lastSave = NoSave

\* The goals: generations, re-mounts of the page and local days.
NextGoals ==
    \/ \E recsReadOk \in BOOLEAN, statusReadOk \in BOOLEAN :
          fetchRecommendations(recsReadOk, statusReadOk)
    \/ \E g \in GenCalls : goalLog.generates < MaxGenerates /\ handleGenerateGoals(g)
    \/ \E g \in GenCalls, reply \in GoalReplies : handleGenerateGoalsAfterFetch(g, reply)
    \/ \E g \in GenCalls, deleteOk \in BOOLEAN : handleGenerateGoalsAfterDelete(g, deleteOk)
    \/ \E g \in GenCalls, insertOk \in BOOLEAN : handleGenerateGoalsAfterInsert(g, insertOk)
    \/ pMount < MaxPMounts /\ remountProgress
    \/ localNow < MaxLocalNow /\ nextLocalDay

SpecGoals == InitProgress /\ [][NextGoals]_vars

\* The completions: toggles and saves of the working set.
NextSave ==
    \/ \E recsReadOk \in BOOLEAN, statusReadOk \in BOOLEAN :
          fetchRecommendations(recsReadOk, statusReadOk)
    \/ \E rec \in recommendations : handleToggleCompletion(rec.id)
    \/ \E h \in SaveCalls : goalLog.saves < MaxSaves /\ handleSaveChanges(h)
    \/ \E h \in SaveCalls, recsReadOk \in BOOLEAN, statusReadOk \in BOOLEAN :
          handleSaveChangesAfterGet(h, recsReadOk, statusReadOk)
    \/ \E h \in SaveCalls, writeOk \in BOOLEAN : handleSaveChangesAfterUpdateStatus(h, writeOk)
    \/ \E h \in SaveCalls, writeOk \in BOOLEAN : handleSaveChangesAfterUpdatePoints(h, writeOk)

SpecSave == InitProgress /\ [][NextSave]_vars

\* The saves under re-mounts of the page: a call goes on when the page that made
\* it is gone, and the new page can start another.
NextSaveRace ==
    \/ NextSave
    \/ pMount < MaxPMounts /\ remountProgress

SpecSaveRace == InitProgress /\ [][NextSaveRace]_vars

(***************************************************************************)
(* Properties                                                               *)
(***************************************************************************)
\* Some handleGameEnd or handleMetricsSubmit call gets the answer of its
\* updatePoints in this step, and the ledger then holds the value it sent.
UpsertAccepted ==
    \/ \E h \in GameCalls :
          /\ gameEnd[h].pc = "updatePoints" /\ gameEnd'[h].pc # "updatePoints"
          /\ gameEnd[h].id \in DOMAIN pointsTbl'
          /\ pointsTbl'[gameEnd[h].id] = gameEnd[h].newPoints
          /\ user'.points = gameEnd[h].newPoints
    \/ /\ metricsSubmit.pc = "updatePoints" /\ metricsSubmit'.pc # "updatePoints"
       /\ metricsSubmit.id \in DOMAIN pointsTbl'
       /\ pointsTbl'[metricsSubmit.id] = metricsSubmit.newPoints
       /\ user'.points = metricsSubmit.newPoints

\* C1: in every point-earning action the session points change only once the
\* ledger upsert of that action has returned success: every step that changes the
\* session points is the step in which an updatePoints call returns with its
\* value written to the ledger.
SessionPointsChangeOnlyAfterUpsert ==
    [][user'.points # user.points => UpsertAccepted]_vars

\* C2: when a point-earning action reports success (the alert of handleGameEnd),
\* the session points are the points the action started from plus its award, and
\* the ledger row of the user holds the session points.
ReportedAwardIsInSessionAndLedger ==
    \A h \in GameCalls :
        gameEnd[h].pc = "alert" =>
            /\ user.points = gameEnd[h].points + GameAward
            /\ gameEnd[h].id \in DOMAIN pointsTbl
            /\ pointsTbl[gameEnd[h].id] = user.points

\* C3: under any interleaving of the point-earning actions of a user, no step
\* lowers the session points or the user's ledger row.
PointsNeverDecrease ==
    [][/\ user'.points >= user.points
       /\ \A u \in DOMAIN pointsTbl : u \in DOMAIN pointsTbl' /\ pointsTbl'[u] >= pointsTbl[u]]_vars

\* The rows of daily_metrics a user created on a day.
RowsOfDay(userId, day) ==
    {i \in DOMAIN dailyMetrics :
        dailyMetrics[i].user_id = userId /\ dailyMetrics[i].created_at = day}

\* C4: for a user and a UTC day, whatever the visits of the tracking view, the
\* re-mounts and the submissions, at most one daily_metrics row is inserted and
\* the 25 points of a submission are granted at most once.
AtMostOneSubmissionPerDay ==
    \A d \in Days :
        /\ Cardinality(RowsOfDay(user.id, d)) <= 1
        /\ awards.metricsAwards[d] <= 1

\* C5: a hasSubmittedToday call that is answered without an error returns true
\* iff a daily_metrics row of the user was created on the current UTC day.
HasSubmittedTodayIsExact ==
    [][(statusCheck.pc = "sent" /\ statusCheck'.pc = "read" /\ ~statusCheck'.error)
         => (statusCheck'.status = (RowsOfDay(statusCheck.id, today) # {}))]_vars

\* C6: the session is authenticated only after a verifyOtp of this session
\* returned true.
AuthenticatedOnlyAfterOtp == user # NoUser => otpPassed

VerifyOtpContract ==
    last.op = "verifyOtp" =>
        /\ last.isValid = (<<last.email, last.code>> \in last.before \/ last.code = DevOtp)
        /\ last.isValid => last.after = {p \in last.before : p[1] # last.email}
        /\ ~last.isValid => last.after = last.before
        /\ {p \in last.after : p[1] # last.email} = {p \in last.before : p[1] # last.email}
        /\ otpCache = last.after

\* C8, witness: a code other than the development code was accepted against the
\* cached challenge while another email had its own challenge outstanding.
ChallengeAcceptedBesideAnother ==
    /\ last.op = "verifyOtp" /\ last.isValid /\ last.code # DevOtp
    /\ \E p \in last.before : p[1] # last.email
    /\ \E p \in otpCache : p[1] # last.email

\* C9: the cache holds at most one challenge per email, a signIn leaves exactly the
\* challenge it issued for the email, and a code other than the development code
\* that a valid verifyOtp consumed is refused when presented again before a new
\* signIn issues a challenge.
OtpIsOneTime ==
    /\ \A e \in Emails : Cardinality({p \in otpCache : p[1] = e}) <= 1
    /\ (last.op = "handleLogin" /\ last.credsOk) =>
          {p \in otpCache : p[1] = last.email} = {<<last.email, last.code>>}
    /\ (last.op = "verifyOtp" /\ last.replay /\ last.code # DevOtp) => ~last.isValid

\* C9, witness: a consumed code was presented again and refused.
ConsumedCodeRefused ==
    /\ last.op = "verifyOtp" /\ last.replay /\ last.code # DevOtp /\ ~last.isValid
    /\ consumed[last.email] = last.code

\* C10: when the credentials are rejected or the OTP webhook fails, handleLogin
\* shows an error and does not move to the OTP view.
FailedSignInStaysOnLogin ==
    (last.op = "handleLogin" /\ (~last.credsOk \/ ~last.hookOk)) =>
        (aView # "otp" /\ error # "")

\* C11: whenever handleLogin has moved to the OTP view, the cache holds a challenge
\* for the email that signed in, and when the OTP webhook failed that challenge is
\* the development code.
OtpViewHasChallenge ==
    (last.op = "handleLogin" /\ aView = "otp") =>
        /\ email = last.email
        /\ \E p \in otpCache : p[1] = last.email
        /\ ~last.hookOk => <<last.email, DevOtp>> \in otpCache

\* C11, witness: a sign-in whose webhook failed is on the OTP view with the
\* development code cached for its email.
FallbackChallengeCached ==
    /\ last.op = "handleLogin" /\ aView = "otp" /\ ~last.hookOk
    /\ <<last.email, DevOtp>> \in otpCache

\* C12: an authenticated session always belongs to an account that has its users
\* row, and a verifyOtp that accepts the code of an account without that row
\* leaves the session anonymous and the backend session ended.
AccountWithoutProfileUnusable ==
    /\ user # NoUser => user.id \in usersTbl
    /\ (last.op = "verifyOtp" /\ last.isValid /\ UserIdOf(last.email) \notin usersTbl) =>
          (user = NoUser /\ backendSession = NoSession)

\* C12, witness: the account that signed up and never completed its profile
\* signed in, presented a valid code, and was refused and signed out.
ProfilelessAccountRefused ==
    /\ last.op = "verifyOtp" /\ last.isValid /\ last.email = "b@x"
    /\ authAccounts["b@x"] # NoPassword /\ UserIdOf("b@x") \notin usersTbl
    /\ user = NoUser /\ backendSession = NoSession
    /\ error = "Could not retrieve user profile."

\* The first of the three writes of a saveInitialDetails call that fails, "" when
\* none does: a write fails when the call marks it as failing or its key exists.
FirstFailingWrite(c) ==
    IF c.failAt = "users" \/ c.id \in c.users THEN "users"
    ELSE IF c.failAt = "health" \/ c.id \in c.health THEN "health"
    ELSE IF c.failAt = "points" \/ c.id \in DOMAIN c.points THEN "points"
    ELSE ""

\* C13: after handleHealthDetailsSubmit called saveInitialDetails, the error it
\* returned names the first failing write; the rows written are exactly those of
\* the writes before it, in the order users, health, points; no write after the
\* failing one was made; the session is authenticated only when all three were
\* made, and then the ledger row and the session user hold 0 points.
CompleteProfileWritesInOrder ==
    (last.op = "handleHealthDetailsSubmit" /\ aView = "healthDetails") =>
        LET c == profileCall
            first == FirstFailingWrite(c)
        IN /\ c.error = first
           /\ usersTbl = (IF first = "users" THEN c.users ELSE c.users \cup {c.id})
           /\ healthTbl = (IF first \in {"users", "health"} THEN c.health
                           ELSE c.health \cup {c.id})
           /\ first # "" => (pointsTbl = c.points /\ user = NoUser /\ c.user = NoUser)
           /\ first = "" =>
                 /\ DOMAIN pointsTbl = DOMAIN c.points \cup {c.id}
                 /\ \A u \in DOMAIN c.points : pointsTbl[u] = c.points[u]
                 /\ pointsTbl[c.id] = 0
                 /\ c.user = [id |-> c.id, points |-> 0]
                 /\ user = c.user

\* C13, witness: the points insert failed after the users and health rows were
\* written; both rows stay, there is no ledger row, nobody is logged in.
ProfileHalfWritten ==
    /\ last.op = "handleHealthDetailsSubmit" /\ profileCall.error = "points"
    /\ profileCall.id \notin profileCall.users
    /\ profileCall.id \in usersTbl /\ profileCall.id \in healthTbl
    /\ profileCall.id \notin DOMAIN pointsTbl
    /\ user = NoUser

\* The tariff of the goals of a set: Easy 2, Medium 5, Hard 8.
RECURSIVE TariffSum(_)
TariffSum(recs) ==
    IF recs = {}
    THEN 0
    ELSE LET rec == CHOOSE r \in recs : TRUE
         IN (IF rec.difficulty = "Easy" THEN 2
             ELSE IF rec.difficulty = "Medium" THEN 5 ELSE 8)
            + TariffSum(recs \ {rec})

\* The goals of a handleSaveChanges call that were not completed in the set
\* persisted when the call re-read it and are completed in its working set.
NewlyCompleted(s) ==
    {rec \in s.working :
        rec.isCompleted /\ \E o \in s.persisted : o.id = rec.id /\ ~o.isCompleted}

\* C14: a handleSaveChanges call whose status upsert succeeded accrued exactly the
\* tariff of the goals that were incomplete in the persisted set and are complete
\* in the working set; with a positive sum the ledger row and the session points
\* grew by that sum, with sum 0 updatePoints was not called and neither changed.
SaveAwardsNewlyCompleted ==
    lastSave.outcome \in {"saved", "earned"} =>
        LET sum == TariffSum(NewlyCompleted(lastSave))
        IN /\ lastSave.pointsEarned = sum
           /\ sum > 0 => /\ lastSave.ledgerAfter = lastSave.ledgerBefore + sum
                         /\ lastSave.sessionAfter = lastSave.sessionBefore + sum
           /\ sum = 0 => /\ ~lastSave.wrote
                         /\ lastSave.ledgerAfter = lastSave.ledgerBefore
                         /\ lastSave.sessionAfter = lastSave.sessionBefore

\* C15: a handleSaveChanges call whose status upsert failed awarded nothing: the
\* ledger row, the session points and the persisted statuses are as they were and
\* updatePoints was not called.
FailedStatusUpsertAwardsNothing ==
    lastSave.outcome = "statusError" =>
        /\ ~lastSave.wrote
        /\ lastSave.ledgerAfter = lastSave.ledgerBefore
        /\ lastSave.sessionAfter = lastSave.sessionBefore
        /\ lastSave.statusAfter = lastSave.statusBefore
        /\ pointsTbl[lastSave.id] = lastSave.ledgerBefore
        /\ user.points = lastSave.sessionBefore

\* C15, witness: a save that had points to award found its status upsert failing
\* and left the ledger, the session and the statuses alone.
FailedSaveWithPointsPending ==
    /\ lastSave.outcome = "statusError" /\ lastSave.pointsEarned > 0
    /\ pMessage = "Error saving changes."
    /\ statusTbl = lastSave.statusBefore
    /\ pointsTbl[lastSave.id] = lastSave.ledgerBefore

\* C16: on no local day are goals fetched from the goal webhook more than once for
\* the user, whatever the generate calls, the failed generations and the
\* re-mounts.
GoalsFetchedOncePerDay == \A t \in LocalNows : goalLog.fetched[t] <= 1

\* C17: a handleGenerateGoals call made while localStorage holds a generation of
\* the user on the current local day returns at once: it leaves no call to the
\* webhook or to recommendations.create in flight and writes nothing to the
\* recommendations.
GenerateRefusedOnGenerationDay ==
    [][(/\ goalLog'.generates > goalLog.generates
        /\ lastGoalGen[user.id] # NoInstant
        /\ isSameDay(LocalDate(lastGoalGen[user.id]), LocalDate(localNow)))
       => (/\ genCall' = genCall
           /\ goalLog'.webhook = goalLog.webhook
           /\ UNCHANGED <<recsTbl, statusTbl, nextRecId>>)]_vars

\* A reply of the goal webhook that yields no goal: a failure, or a text none of
\* whose lines has three parts with a valid category and a valid difficulty.
YieldsNoGoal(reply) ==
    \/ ~reply.ok
    \/ \A i \in DOMAIN reply.lines :
          LET line == reply.lines[i]
          IN ~(/\ Len(line) = 3
               /\ line[2] \in {"Diet", "Exercise", "Mental Health", "General"}
               /\ line[3] \in {"Easy", "Medium", "Hard"})

\* C18: a handleGenerateGoals call whose webhook reply yields no goal returns with
\* the generation error and writes nothing: the recommendations, the statuses,
\* the working set, the timestamp in localStorage and canGenerate are as they were.
NoGoalsWritesNothing ==
    (lastGen.outcome \notin {"none", "refused"} /\ YieldsNoGoal(lastGen.reply)) =>
        /\ lastGen.outcome = "noGoals"
        /\ lastGen.recsAfter = lastGen.recsBefore
        /\ lastGen.statusAfter = lastGen.statusBefore
        /\ lastGen.workingAfter = lastGen.workingBefore
        /\ lastGen.storedAfter = lastGen.storedBefore
        /\ lastGen.canAfter = lastGen.canBefore
        /\ lastGen.onScreen =>
              lastGen.message = "Could not generate new goals from the service."

\* C18, witness: a reply whose lines were all malformed ended the call with the
\* error, the persisted goals still there.
MalformedReplyRefused ==
    /\ lastGen.outcome = "noGoals" /\ lastGen.reply.ok
    /\ lastGen.reply.lines # <<EmptyLine>>
    /\ lastGen.onScreen /\ lastGen.recsAfter # {}
    /\ recsTbl = lastGen.recsBefore
    /\ pMessage = "Could not generate new goals from the service."

\* The recommendations rows of a user in a table.
RowsOfUser(recs, userId) == {row \in recs : row.user_id = userId}

\* C19: when recommendations.create has returned, the rows of the user are the
\* rows it had when create was called or the new batch that create returned, and
\* they are the prior rows when create returned an error.
CreateReplacesAtomically ==
    lastGen.outcome \in {"deleteError", "insertError", "generated"} =>
        LET priorRows == RowsOfUser(lastGen.prior, lastGen.id)
            rowsNow == RowsOfUser(lastGen.recsAfter, lastGen.id)
            batchIds == {rec.id : rec \in lastGen.returned}
        IN /\ \/ rowsNow = priorRows
              \/ /\ lastGen.outcome = "generated"
                 /\ {row.id : row \in rowsNow} = batchIds
           /\ lastGen.outcome # "generated" => rowsNow = priorRows

\* C20: after a handleGenerateGoals call that succeeded, the ids it returned are
\* none of the ids the user had when create was called, none of those rows is
\* left, and recommendations.get gives every returned goal as not completed.
GenerateGivesFreshIncompleteGoals ==
    lastGen.outcome = "generated" =>
        LET priorIds == {row.id : row \in RowsOfUser(lastGen.prior, lastGen.id)}
            newIds == {rec.id : rec \in lastGen.returned}
            readBack == recommendationsGet(lastGen.recsAfter, lastGen.statusAfter,
                                           lastGen.id, TRUE, TRUE)
        IN /\ newIds # {}
           /\ newIds \cap priorIds = {}
           /\ \A row \in RowsOfUser(lastGen.recsAfter, lastGen.id) : row.id \notin priorIds
           /\ \A id \in newIds : \E rec \in readBack : rec.id = id /\ ~rec.isCompleted
           /\ \A rec \in lastGen.returned : ~rec.isCompleted

\* C20, witness: a generation replaced goals of which one had a completed status
\* stored, and that status row is still there.
GeneratedOverCompletedGoal ==
    /\ lastGen.outcome = "generated"
    /\ \E st \in lastGen.statusAfter :
          /\ st.is_completed
          /\ st.recommendation_id \in {row.id : row \in lastGen.prior}
    /\ lastGen.returned # {}

\* C21: a handleMetricsSubmit call whose insert fails returns and leaves the
\* daily_metrics rows, the ledger, the session points and submittedToday as they
\* were, and no award is counted.
FailedMetricsInsertChangesNothing ==
    [][(metricsSubmit.pc = "save" /\ metricsSubmit'.pc = "idle")
         => (/\ UNCHANGED <<dailyMetrics, pointsTbl, user, submittedToday>>
             /\ awards'.metricsAwards = awards.metricsAwards)]_vars

\* C21, witness: a submission of a filled form has failed: no row, no points, the
\* form still on screen and its button enabled again.
MetricsInsertFailed ==
    /\ awards.submits > 0 /\ metricsSubmit.pc = "idle"
    /\ metrics # {}
    /\ dailyMetrics = <<>>
    /\ user.points = 0 /\ pointsTbl["u1"] = 0
    /\ dView = "tracking" /\ ~submittedToday /\ ~loading

\* A text that is a number: one digit or more, and nothing else.
IsNumberText(text) == text # <<>> /\ \A i \in DOMAIN text : IsDigit(text[i])

\* The number a number text writes, read from its last digit.
RECURSIVE NumberOf(_)
NumberOf(text) ==
    IF Len(text) = 1
    THEN DigitValue(text[1])
    ELSE 10 * NumberOf(SubSeq(text, 1, Len(text) - 1)) + DigitValue(text[Len(text)])

\* The fields a form is to leave in its record: those whose text is a number,
\* under their column names.
FieldsToPersist(form) ==
    {[key |-> toSnakeCaseKey(f.key), value |-> NumberOf(f.value)]
       : f \in {g \in form : IsNumberText(g.value)}}

\* C22: the insert of a handleMetricsSubmit call that succeeds adds one row that
\* holds exactly the fields of the form whose text is a number, each with its
\* number, and no other field; the session points become the points of the call
\* plus 25.
SubmitPersistsParsedFields ==
    [][(metricsSubmit.pc = "save" /\ metricsSubmit'.pc = "updatePoints")
         => (/\ Len(dailyMetrics') = Len(dailyMetrics) + 1
             /\ SubSeq(dailyMetrics', 1, Len(dailyMetrics)) = dailyMetrics
             /\ dailyMetrics'[Len(dailyMetrics')].fields
                   = FieldsToPersist(metricsSubmit.form)
             /\ user'.points = metricsSubmit.points + MetricsAward)]_vars

\* C22, witness: heartRate "72" and an empty steps were submitted with 0 points:
\* the row holds heart_rate 72 only, the session and the ledger hold 25.
HeartRateOnlyPersisted ==
    /\ Len(dailyMetrics) = 1
    /\ dailyMetrics[1].fields = {[key |-> "heart_rate", value |-> 72]}
    /\ metrics = {[key |-> "heartRate", value |-> <<"7", "2">>],
                  [key |-> "steps", value |-> <<>>]}
    /\ metricsSubmit.pc = "idle"
    /\ user.points = 25 /\ pointsTbl["u1"] = 25

\* C23: once a submission of the day has succeeded, the tracking view does not
\* offer the form again on that day: whenever it is shown and no submission is in
\* flight, submittedToday is true.
SubmittedDayStaysClosed ==
    (awards.metricsAwards[today] > 0 /\ dView = "tracking" /\ metricsSubmit.pc = "idle")
        => submittedToday

\* C27: when two handleGameEnd calls that started from the same session points p
\* have both completed without an error, the ledger row the later one left holds
\* p + 10: one of the two awards is lost.
SameStartGameEndsLoseAnAward ==
    \A i, j \in DOMAIN awards.done :
        (/\ i < j
         /\ awards.done[i].ok /\ awards.done[j].ok
         /\ awards.done[i].from = awards.done[j].from)
        => awards.done[j].ledger = awards.done[j].from + GameAward

\* C27, witness: two games ended, both handleGameEnd calls started from 0 points
\* and completed without an error, and the ledger holds 10.
TwoGamesOneAward ==
    /\ Len(awards.done) = 2
    /\ awards.done[1].ok /\ awards.done[2].ok
    /\ awards.done[1].from = 0 /\ awards.done[2].from = 0
    /\ Len(gameSessions) = 2
    /\ \A h \in GameCalls : gameEnd[h].pc \in {"idle", "alert"}
    /\ pointsTbl["u1"] = GameAward

\* C28: a game played to its end calls handleGameEnd once: the calls never
\* outnumber the games played to their end, nor do the game_sessions rows, and
\* once the effects have run every such game has had its call.
GameEndOncePerGame ==
    /\ awards.games <= plays
    /\ Len(gameSessions) <= plays
    /\ NoEffectDue => awards.games = plays

RECURSIVE GoalsOfKeptLines(_)
GoalsOfKeptLines(lines) ==
    IF lines = <<>>
    THEN <<>>
    ELSE LET line == Head(lines)
             rest == GoalsOfKeptLines(Tail(lines))
         IN IF /\ Len(line) = 3
               /\ line[2] \in {"Diet", "Exercise", "Mental Health", "General"}
               /\ line[3] \in {"Easy", "Medium", "Hard"}
            THEN <<[goal |-> line[1], category |-> line[2], difficulty |-> line[3]]>>
                 \o rest
            ELSE rest

\* C26: the goals a handleGenerateGoals call got from the parser are exactly the
\* goals of the kept lines of the reply, and there is one at least; a call ends
\* for want of goals exactly when the webhook failed or no line of the reply is
\* kept.
ParserKeepsValidLines ==
    /\ \A g \in GenCalls :
          genCall[g].pc \in {"delete", "insert"} =>
              /\ genCall[g].reply.ok
              /\ genCall[g].newGoals = GoalsOfKeptLines(genCall[g].reply.lines)
              /\ genCall[g].newGoals # <<>>
    /\ lastGen.outcome = "noGoals" =>
          (~lastGen.reply.ok \/ GoalsOfKeptLines(lastGen.reply.lines) = <<>>)
    /\ lastGen.outcome \in {"deleteError", "insertError", "generated"} =>
          (lastGen.reply.ok /\ GoalsOfKeptLines(lastGen.reply.lines) # <<>>)

\* C26, witness: of a reply of three lines, one with four parts and one with an
\* unknown difficulty, the call goes on with the one goal of the valid line.
ParserDroppedTwoLines ==
    \E g \in GenCalls :
        /\ genCall[g].pc = "delete"
        /\ genCall[g].reply.lines = <<LineFourParts, LineWalk, LineBadDifficulty>>
        /\ genCall[g].newGoals =
              <<[goal |-> "walk", category |-> "Exercise", difficulty |-> "Easy"]>>

\* C29: the points awarded in all for a goal never exceed the tariff of its
\* difficulty, whatever the toggles and the saves.
GoalAwardedAtMostOnce ==
    \A a \in goalLog.awarded :
        \A row \in recsTbl : row.id = a.id => a.points <= TariffSum({row})

\* C30: a handleSaveChanges call that follows a successful one with the same
\* working set accrues no points (ledger and session points as before), does not
\* call updatePoints and leaves the status rows as they were.
SecondSaveAwardsNothing ==
    (/\ lastSave.outcome # "none"
     /\ lastSave.prior.outcome \in {"saved", "earned"}
     /\ lastSave.working = lastSave.prior.working)
    => (/\ lastSave.ledgerAfter = lastSave.ledgerBefore
        /\ lastSave.sessionAfter = lastSave.sessionBefore
        /\ ~lastSave.wrote
        /\ lastSave.statusAfter = lastSave.statusBefore)

\* C25: a handleSignUp call with a password of fewer than 8 characters, or with
\* a confirmation that differs from the password, does not call the backend
\* signUp: no account is made, no session and no provisional identity, and the
\* view stays on the sign-up form.
SignUpValidatesBeforeBackend ==
    [][(/\ last'.op = "handleSignUp" /\ last' # last
        /\ (Len(last'.password) < 8 \/ last'.password # last'.confirmPassword))
       => (/\ ~last'.signUpCalled
           /\ authAccounts' = authAccounts
           /\ backendSession' = backendSession
           /\ newUser' = newUser
           /\ aView' = "signup")]_vars

\* C25, witness: a sign-up with a long enough password and another confirmation
\* was turned down on the form.
SignUpMismatchRejected ==
    /\ last.op = "handleSignUp"
    /\ last.password = "secret123" /\ last.confirmPassword = "wrongpass"
    /\ ~last.signUpCalled
    /\ error = "Passwords do not match."
    /\ aView = "signup"

\* C34: when the insert of the game_sessions row of a handleGameEnd call fails,
\* the call awards nothing: the session points and the ledger are as before and
\* no updatePoints is sent.
FailedGameSessionAwardsNothing ==
    [][\A h \in GameCalls :
          (/\ gameEnd[h].pc = "saveSession" /\ gameEnd'[h].pc # "saveSession"
           /\ gameSessions' = gameSessions)
          => (/\ user' = user
              /\ pointsTbl' = pointsTbl
              /\ gameEnd'[h].pc # "updatePoints")]_vars

\* C32: after a handleOtpVerification that accepted the code and logged the user
\* in, the session points are the points of the ledger row of the user.
OtpLoginLoadsLedgerPoints ==
    (last.op = "verifyOtp" /\ last.isValid /\ user # NoUser)
        => (user.id \in DOMAIN pointsTbl => user.points = pointsTbl[user.id])

\* A handleGenerateGoals call whose recommendations.create returned without an
\* error wrote the generation instant of the user and left canGenerate false.
SuccessRecordsGeneration ==
    lastGen.outcome = "generated" =>
        (lastGen.storedAfter = lastGen.at /\ ~lastGen.canAfter)

\* A handleGenerateGoals call that got no goals, or whose recommendations.create
\* returned an error, left the generation instant and canGenerate as they were.
FailureRecordsNothing ==
    lastGen.outcome \in {"noGoals", "deleteError", "insertError"} =>
        (lastGen.storedAfter = lastGen.storedBefore /\ lastGen.canAfter = lastGen.canBefore)

\* No handleGenerateGoals call succeeds on a local day on which a generation of
\* the user is already recorded.
OneGenerationPerLocalDay ==
    lastGen.outcome = "generated" =>
        ~(/\ lastGen.storedBefore # NoInstant
          /\ isSameDay(LocalDate(lastGen.storedBefore), LocalDate(lastGen.at)))

\* C33: the generation instant is written and canGenerate set to false exactly
\* when recommendations.create returned without an error; a failed generate
\* records nothing; and after a successful generate no other generate succeeds
\* for the user on the same local day.
GenerationRecordedIffCreated ==
    /\ SuccessRecordsGeneration
    /\ FailureRecordsNothing
    /\ OneGenerationPerLocalDay

\* C31: when the two handleSaveChanges calls made for a user, with the same
\* working set, have both re-read the same persisted set before either sent its
\* statuses, the ledger they leave is at most the ledger of that moment plus the
\* tariff of the goals the working set newly completes: no goal is paid twice.
InterleavedSavesAwardOnce ==
    (/\ goalLog.saves = 2
     /\ lastSave.outcome # "none"
     /\ lastSave.race.on
     /\ lastSave.prior.race = lastSave.race)
    => lastSave.ledgerAfter <= lastSave.race.base + TariffSum(lastSave.race.flipped)

\* C31, witness: two such calls both earned points for a newly completed goal,
\* and the ledger has grown by its tariff once.
InterleavedSavesBothEarned ==
    /\ goalLog.saves = 2
    /\ lastSave.outcome = "earned" /\ lastSave.prior.outcome = "earned"
    /\ lastSave.race.on /\ lastSave.prior.race = lastSave.race
    /\ lastSave.race.flipped # {}
    /\ lastSave.ledgerAfter = lastSave.race.base + TariffSum(lastSave.race.flipped)

====
